---- MODULE Spec2Model ----
(***************************************************************************)
(* A model of the pixelpet demo page: the production animation of          *)
(* src/js/app.js (sliders, interval timer, step marks, product card) and   *)
(* the sound subsystem of src/unnamed/part_001 (AudioSystem, SoundFactory) *)
(* with src/js/audio/audio-settings.js and src/unnamed/part_000.           *)
(*                                                                         *)
(* JavaScript runs one handler at a time, so every handler is one action;  *)
(* an async function is split at each await, one action per segment.       *)
(* Texts are sequences of one-character strings.  Time is counted in       *)
(* units of 200 ms (the greatest common divisor of the page's 800 ms       *)
(* interval and 600 ms timeout).                                           *)
(***************************************************************************)
EXTENDS Integers, Sequences, FiniteSets, Bags, TLC

VARIABLES
    AppState,     \* the AppState object (src/js/app.js:13-31)
    DOM,          \* the elements DOMCache and getElementById reach (src/js/app.js:39-103)
    intervals,    \* live setInterval timers of startProductionAnimation, oldest first
    completions,  \* pending 600 ms timeouts of activateStep, oldest first
    sinceReset,   \* history: resetSystem ran and launchProduction has not run since
    lastReveal,   \* history: the timer that called showFinalProduct last, and the clock it read
    audioSystem,  \* the AudioSystem singleton (src/unnamed/part_001:1174-1183)
    soundFactory, \* its SoundFactory (src/unnamed/part_001:10-15)
    soundMapping, \* its SoundMappingSystem (src/unnamed/part_000:11-15)
    eventBus,     \* window.AudioEventBus: the callbacks subscribed to each event type
    audioSettings,\* the settings of window.AudioSettings (src/js/audio/audio-settings.js:10-72)
    localStorage, \* the item 'pixelpet_audio_settings' of localStorage
    navigator,    \* what detectPlatform reads of the device
    frames,       \* bag of playSound calls suspended at an await
    timers,       \* sources whose 10 s timeout of trackActiveSound is pending, oldest first
    playing,      \* tracked sources that were started and have neither ended nor been stopped
    nextSource,   \* number of sources tracked so far; the next one gets nextSource + 1
    sources,      \* the sources of activeSounds: their member soundName and the gain of their gain node
    lastPlay,     \* history: the playSound call that completed last
    lastGen,      \* history: the generateSound call that was made last
    lastConfig,   \* history: what the two configuration files came to in AudioSystem.initialize
    lastSettings, \* history: the operation on the settings that ran last, and what it returned
    lastEvent,    \* history: the playAudioEvent call that completed last
    audioManager, \* window.AudioManager (src/unnamed/part_001:876-886)
    startup       \* the deferred start-up of the DOMContentLoaded listener (src/unnamed/part_001:1012-1067)

appVars == <<AppState, DOM, intervals, completions, sinceReset, lastReveal>>

audioVars == <<audioSystem, soundFactory, soundMapping, eventBus, audioSettings,
               localStorage, navigator, frames, timers, playing, nextSource, sources,
               lastPlay,
               lastGen, lastConfig, lastSettings, lastEvent>>

startupVars == <<audioManager, startup>>

vars == <<appVars, audioVars, startupVars>>

----------------------------------------------------------------------------
(* Bounds of the model *)

\* interval timers alive at once (launchProduction never clears one)
MaxTimers == 2

----------------------------------------------------------------------------
(* Texts and numbers *)

DigitChars == <<"0", "1", "2", "3", "4", "5", "6", "7", "8", "9">>

IsDigit(c) == \E d \in 1..10 : DigitChars[d] = c

DigitValue(c) == (CHOOSE d \in 1..10 : DigitChars[d] = c) - 1

\* Number.prototype.toString of a non-negative integer
RECURSIVE ToStr(_)
ToStr(n) == IF n < 10 THEN <<DigitChars[n + 1]>>
            ELSE ToStr(n \div 10) \o <<DigitChars[(n % 10) + 1]>>

\* parseInt of a text of decimal digits
RECURSIVE ParseInt(_)
ParseInt(s) == IF Len(s) = 0 THEN 0
               ELSE 10 * ParseInt(SubSeq(s, 1, Len(s) - 1)) + DigitValue(s[Len(s)])

\* String.prototype.slice(-n): the last n characters, the whole text when shorter
SliceLast(s, n) == IF Len(s) <= n THEN s ELSE SubSeq(s, Len(s) - n + 1, Len(s))

\* value / 100 of the slider code, kept as an exact fraction
Ratio(v) == [num |-> v, den |-> 100]

\* numeric coercion of a text of digits, as in value / 100
ToNumber(s) == ParseInt(s)

----------------------------------------------------------------------------
(* The page: src/js/app.js *)

Types == <<"recipe", "production", "quality", "packaging", "logistics">>

TypeSet == {Types[i] : i \in 1..5}

Steps == 1..5

getStepNumber(type) == CHOOSE i \in Steps : Types[i] = type

getTypeFromStep(step) == Types[step]

getProcessColor(type) ==
    CASE type = "recipe"     -> "#FF6B6B"
      [] type = "production" -> "#4ECDC4"
      [] type = "quality"    -> "#45B7D1"
      [] type = "packaging"  -> "#96CEB4"
      [] type = "logistics"  -> "#FFE66D"

\* variant: the thresholds are exclusive
getQualityLabel_exclusive(value) ==
    IF value > 80 THEN "excellent"
    ELSE IF value > 60 THEN "good"
    ELSE "average"

getQualityLabel(value) ==
    IF value >= 80 THEN "excellent"
    ELSE IF value >= 60 THEN "good"
    ELSE "average"

\* totalScore is a mean, kept as an exact fraction num/den
getCostLabel(totalScore) ==
    IF totalScore.num >= 80 * totalScore.den THEN "high"
    ELSE IF totalScore.num >= 60 * totalScore.den THEN "medium"
    ELSE "low"

\* the processConfig literal of AppState
DefaultConfig ==
    [recipe |-> 75, production |-> 80, quality |-> 90, packaging |-> 70, logistics |-> 85]

DefaultService == "premium"

DefaultEmoji == "cat"

DefaultBrand == "miao-select"

\* The service cards and emoji options of the document, in document order; the
\* first of each is what querySelector returns.
ServiceCards == <<"premium", "standard">>

EmojiOptions == <<"cat", "dog">>

\* what the user may type into the brandName input
BrandInputs == {"", "Mimi"}

\* values a range input delivers
SliderInputs == {0, 59, 60, 100}

\* Date.now() readings: hi * 10^6 + lo milliseconds, lo < 10^6
Timestamps ==
    { [hi |-> 1764000, lo |-> 0],
      [hi |-> 1764012, lo |-> 345],
      [hi |-> 1764099, lo |-> 999999] }

\* 800 ms of setInterval and 600 ms of setTimeout, in units of 200 ms
IntervalDelay == 4

CompleteDelay == 3

\* one world of the page: what a handler reads and writes
World == [AppState |-> AppState, DOM |-> DOM, intervals |-> intervals,
          completions |-> completions]

\* variant: the style is written to every connector instead of the one of type
updateConnectorColor_everyConnector(w, type, value) ==
    [w EXCEPT !.DOM.connectorStyle =
        [t \in TypeSet |->
            [background |-> getProcessColor(t), opacity |-> Ratio(value)]]]

updateConnectorColor(w, type, value) ==
    [w EXCEPT !.DOM.connectorStyle[type] =
        [background |-> getProcessColor(type), opacity |-> Ratio(value)]]

\* variant: the value is stored on the scale 0..1000
updateSlider_thousandths(w, type) ==
    LET value == w.DOM.sliders[type]
        w1 == [w EXCEPT !.AppState.processConfig[type] = ParseInt(value) * 10,
                        !.DOM.sliderValues[type] = value \o <<"%">>,
                        !.DOM.stepValues[type] = value \o <<"%">>,
                        !.DOM.stepOpacity[type] = Ratio(ToNumber(value))]
    IN  updateConnectorColor(w1, type, ToNumber(value))

updateSlider(w, type) ==
    LET value == w.DOM.sliders[type]
        w1 == [w EXCEPT !.AppState.processConfig[type] = ParseInt(value),
                        !.DOM.sliderValues[type] = value \o <<"%">>,
                        !.DOM.stepValues[type] = value \o <<"%">>,
                        !.DOM.stepOpacity[type] = Ratio(ToNumber(value))]
    IN  updateConnectorColor(w1, type, ToNumber(value))

\* SliderController.initialize
initialize(w) ==
    updateSlider(updateSlider(updateSlider(updateSlider(updateSlider(w,
        "recipe"), "production"), "quality"), "packaging"), "logistics")

selectEmoji(w, option) ==
    [w EXCEPT !.DOM.selectedOptions = {option},
              !.AppState.selectedEmoji = option]

selectService(w, serviceType) ==
    [w EXCEPT !.DOM.activeCards = {serviceType},
              !.AppState.selectedService = serviceType]

RECURSIVE resetStepsFrom(_, _)
resetStepsFrom(w, i) ==
    IF i > 5 THEN w
    ELSE LET type == getTypeFromStep(i)
             value == w.AppState.processConfig[type]
             w1 == [w EXCEPT !.DOM.stepClass[i] = {},
                             !.DOM.connectorClass[i] = {},
                             !.DOM.stepOpacity[type] = Ratio(value)]
         IN  resetStepsFrom(updateConnectorColor(w1, type, value), i + 1)

resetProcess(w) == resetStepsFrom(w, 1)

resetUIState(w) ==
    [w EXCEPT !.DOM.activeCards = {ServiceCards[1]},
              !.DOM.selectedOptions = {EmojiOptions[1]},
              !.AppState.selectedEmoji = DefaultEmoji]

\* variant: the inputs are set back but the displays and processConfig are not
\* refreshed from them
resetSliders_noRefresh(w) ==
    [w EXCEPT !.DOM.sliders =
        [recipe |-> ToStr(75), production |-> ToStr(80), quality |-> ToStr(90),
         packaging |-> ToStr(70), logistics |-> ToStr(85)]]

resetSliders(w) ==
    initialize([w EXCEPT !.DOM.sliders =
        [recipe |-> ToStr(75), production |-> ToStr(80), quality |-> ToStr(90),
         packaging |-> ToStr(70), logistics |-> ToStr(85)]])

resetSystem(w) ==
    LET w1 == [w EXCEPT !.AppState.selectedService = "premium",
                        !.AppState.currentStep = 0]
        w2 == resetProcess(resetSliders(resetUIState(w1)))
    IN  [w2 EXCEPT !.DOM.productShown = FALSE]

\* a new interval timer; acts and clean are history: the steps this timer
\* activated, and whether no launch or reset ran since it was created
NewInterval == [rem |-> IntervalDelay, acts |-> <<>>, clean |-> TRUE]

startProductionAnimation(w) ==
    [w EXCEPT !.AppState.currentStep = 0,
              !.intervals = Append(@, NewInterval)]

launchProduction(w) == startProductionAnimation(resetProcess(w))

activateStep(w, stepNumber) ==
    [w EXCEPT !.DOM.stepClass[stepNumber] = @ \cup {"active"},
              !.DOM.connectorClass[stepNumber] = @ \cup {"active"},
              !.completions = Append(@, [step |-> stepNumber, rem |-> CompleteDelay])]

\* the callback of the 600 ms timeout of activateStep
completeStep(w, stepNumber) ==
    [w EXCEPT !.DOM.stepClass[stepNumber] = (@ \cup {"completed"}) \ {"active"}]

\* Date.now().toString()
NowToString(now) ==
    IF now.hi = 0 THEN ToStr(now.lo)
    ELSE ToStr(now.hi) \o SliceLast(<<"0", "0", "0", "0", "0", "0">> \o ToStr(now.lo), 6)

\* variant: the number is the timestamp modulo 10^8, printed without its
\* leading zeros
generateTrackingNumber_modulo(w, now) ==
    [w EXCEPT !.DOM.product.trackingNumber =
        <<"T", "R", "K", "-">> \o ToStr((now.hi % 100) * 1000000 + now.lo)]

generateTrackingNumber(w, now) ==
    [w EXCEPT !.DOM.product.trackingNumber =
        <<"T", "R", "K", "-">> \o SliceLast(NowToString(now), 8)]

updateStats(w) ==
    LET c == w.AppState.processConfig IN
    [w EXCEPT !.DOM.product.stats =
        [recipe     |-> getQualityLabel(c.recipe),
         production |-> getQualityLabel(c.production),
         quality    |-> IF c.quality >= 60 THEN "pass" ELSE "fail",
         packaging  |-> getQualityLabel(c.packaging),
         logistics  |-> getQualityLabel(c.logistics),
         cost       |-> getCostLabel([num |-> c.recipe + c.production
                                              + c.packaging + c.logistics,
                                      den |-> 4])]]

\* updateDateInfo writes the production date and the constant shelf life; no
\* other code reads them and they are left out of the card below
updateProductInfo(w, brand, now) ==
    LET w1 == [w EXCEPT !.DOM.product.emoji = w.AppState.selectedEmoji,
                        !.DOM.product.title = brand,
                        !.DOM.product.image = <<w.AppState.selectedEmoji, "meat">>]
    IN  generateTrackingNumber(updateStats(w1), now)

showFinalProduct(w, now) ==
    LET brand == IF w.DOM.brandName = "" THEN DefaultBrand ELSE w.DOM.brandName
    IN  [updateProductInfo(w, brand, now) EXCEPT !.DOM.productShown = TRUE]

RemoveAt(s, i) == SubSeq(s, 1, i - 1) \o SubSeq(s, i + 1, Len(s))

\* one run of the setInterval callback of timer i
intervalCallback(w, i, now) ==
    IF w.AppState.currentStep < 5
    THEN LET step == w.AppState.currentStep + 1
             w1 == activateStep(w, step)
         IN  [w1 EXCEPT !.AppState.currentStep = @ + 1,
                        !.intervals[i].rem = IntervalDelay,
                        !.intervals[i].acts =
                            IF w.intervals[i].clean THEN Append(@, step) ELSE @]
    ELSE showFinalProduct([w EXCEPT !.intervals = RemoveAt(@, i)], now)

\* the document as loaded, before initializeApp: sliders at the defaults of
\* AppState, nothing marked, the product card hidden and empty
LoadedWorld ==
    [AppState |-> [selectedService |-> DefaultService,
                   selectedEmoji |-> DefaultEmoji,
                   currentStep |-> 0,
                   processConfig |-> DefaultConfig],
     DOM |-> [sliders |-> [t \in TypeSet |-> ToStr(DefaultConfig[t])],
              sliderValues |-> [t \in TypeSet |-> <<>>],
              stepValues |-> [t \in TypeSet |-> <<>>],
              stepOpacity |-> [t \in TypeSet |-> Ratio(100)],
              connectorStyle |-> [t \in TypeSet |->
                                     [background |-> "", opacity |-> Ratio(100)]],
              stepClass |-> [i \in Steps |-> {}],
              connectorClass |-> [i \in Steps |-> {}],
              activeCards |-> {ServiceCards[1]},
              selectedOptions |-> {},
              brandName |-> "",
              productShown |-> FALSE,
              product |-> [emoji |-> "", title |-> "", image |-> <<>>,
                           stats |-> [recipe |-> "", production |-> "",
                                      quality |-> "", packaging |-> "",
                                      logistics |-> "", cost |-> ""],
                           trackingNumber |-> <<>>]],
     intervals |-> <<>>,
     completions |-> <<>>]

initializeApp(w) == selectEmoji(initialize(w), EmojiOptions[1])

NoReveal == [clean |-> FALSE, acts |-> <<>>, now |-> [hi |-> 0, lo |-> 0]]

\* the audio objects as their constructors leave them
NoPlay == [sound |-> "", result |-> "none", added |-> FALSE]

NoGen == [sound |-> "", outcome |-> "none"]

\* the cap of handleAudioEvent on simultaneously active sounds
maxConcurrentSounds == 8

\* global.masterVolume, in hundredths
MasterVolume == 80

\* settings.categories of the constructor; volumes are kept in hundredths
DefaultCategories ==
    [ui |-> [volume |-> 70, enabled |-> TRUE],
     game |-> [volume |-> 80, enabled |-> TRUE],
     music |-> [volume |-> 60, enabled |-> TRUE],
     environment |-> [volume |-> 50, enabled |-> TRUE],
     production |-> [volume |-> 90, enabled |-> TRUE],
     customer |-> [volume |-> 70, enabled |-> TRUE]]

\* The settings of the AudioSettings constructor: the global section, the
\* categories and the performance section.  Volumes are kept in hundredths.
DefaultSettings ==
    [global |-> [enabled |-> TRUE, masterVolume |-> MasterVolume, mute |-> FALSE],
     categories |-> DefaultCategories,
     performance |-> [maxConcurrentSounds |-> 8, bufferPoolSize |-> 10]]

\* A JSON text, kept member by member, every value as the characters that
\* spell it; valid is false for a text JSON.parse refuses.
JsonText(members) == [valid |-> TRUE, members |-> members]

BrokenText == [valid |-> FALSE, members |-> [section \in {} |-> ""]]

\* getItem returns null while nothing is stored
NoItem == [present |-> FALSE, text |-> BrokenText]

Item(text) == [present |-> TRUE, text |-> text]

\* new Map()
EmptyMap == [name \in {} |-> ""]

NoConfig == [mappings |-> "none", mappingsResult |-> FALSE,
             implementations |-> "none", implementationsResult |-> FALSE]

\* the events the start-up listens to
InteractionTypes == {"click", "touchstart", "keydown"}

\* the AudioSystem constructor; a subscription is a number, 0 for none, and
\* listeners counts the audioEnabledChanged listeners the instance has added
AudioSystem_new ==
    [isInitialized |-> FALSE, audioContext |-> "none", activeSounds |-> {},
     maxConcurrentSounds |-> maxConcurrentSounds, eventBusSubscription |-> 0,
     listeners |-> 0]

NoEvent == [type |-> "", result |-> "none", because |-> "", dispatched |-> 0,
            handled |-> <<>>, called |-> <<>>]

\* no source is tracked
NoSources == [source \in {} |-> [soundName |-> "", played |-> "", gain |-> 0]]

InitAudio ==
    /\ audioSystem = AudioSystem_new
    /\ eventBus = [subscribers |-> EmptyMap]
    /\ lastEvent = NoEvent
    /\ audioManager = [isInitialized |-> FALSE]
    /\ startup = [initialized |-> FALSE, listeners |-> InteractionTypes,
                  timerPending |-> TRUE, awaiting |-> 0, calls |-> 0]
    /\ soundFactory = [isInitialized |-> FALSE, audioContext |-> "none",
                       implementations |-> EmptyMap, audioBufferPool |-> {}]
    /\ soundMapping = [isInitialized |-> FALSE, mappings |-> EmptyMap,
                       conditionalMappings |-> <<>>]
    /\ audioSettings = DefaultSettings
    /\ localStorage = NoItem
    /\ navigator = [mobile |-> FALSE, lowEnd |-> FALSE]
    /\ frames = EmptyBag
    /\ timers = <<>>
    /\ playing = {}
    /\ nextSource = 0
    /\ sources = NoSources
    /\ lastPlay = NoPlay
    /\ lastGen = NoGen
    /\ lastConfig = NoConfig
    /\ lastSettings = [op |-> "none", result |-> FALSE]

\* the page's handlers leave the audio objects alone
Write(w) ==
    /\ AppState' = w.AppState
    /\ DOM' = w.DOM
    /\ intervals' = w.intervals
    /\ completions' = w.completions
    /\ UNCHANGED <<audioVars, startupVars>>

\* history: a launch or a reset disturbs the run of every timer alive, whose
\* activations are no longer recorded
Disturbed(w) ==
    [w EXCEPT !.intervals = [i \in 1..Len(w.intervals) |->
                                [w.intervals[i] EXCEPT !.clean = FALSE, !.acts = <<>>]]]

InitApp ==
    /\ AppState = initializeApp(LoadedWorld).AppState
    /\ DOM = initializeApp(LoadedWorld).DOM
    /\ intervals = <<>>
    /\ completions = <<>>
    /\ sinceReset = FALSE
    /\ lastReveal = NoReveal
    /\ InitAudio

\* the browser sets the value of a range input before its input event
SliderInput(w, type, v) == [w EXCEPT !.DOM.sliders[type] = ToStr(v)]

\* the input event of a range input: the browser sets its value, then the
\* handler runs
MoveSlider(type, v) ==
    /\ Write(updateSlider(SliderInput(World, type, v), type))
    /\ UNCHANGED <<sinceReset, lastReveal>>

SelectEmoji(option) ==
    /\ Write(selectEmoji(World, option))
    /\ UNCHANGED <<sinceReset, lastReveal>>

SelectService(serviceType) ==
    /\ Write(selectService(World, serviceType))
    /\ UNCHANGED <<sinceReset, lastReveal>>

TypeBrand(b) ==
    /\ b # DOM.brandName
    /\ Write([World EXCEPT !.DOM.brandName = b])
    /\ UNCHANGED <<sinceReset, lastReveal>>

LaunchProduction ==
    /\ Len(intervals) < MaxTimers
    /\ Write(launchProduction(Disturbed(World)))
    /\ sinceReset' = FALSE
    /\ UNCHANGED lastReveal

ResetSystem ==
    /\ Write(resetSystem(Disturbed(World)))
    /\ sinceReset' = TRUE
    /\ UNCHANGED lastReveal

\* a due interval timer runs its callback
IntervalTick(i, now) ==
    /\ intervals[i].rem = 0
    /\ Write(intervalCallback(World, i, now))
    /\ lastReveal' = IF AppState.currentStep < 5 THEN lastReveal
                     ELSE [clean |-> intervals[i].clean, acts |-> intervals[i].acts,
                           now |-> now]
    /\ UNCHANGED sinceReset

\* a due 600 ms timeout runs its callback
StepTimeout(j) ==
    /\ completions[j].rem = 0
    /\ Write(completeStep([World EXCEPT !.completions = RemoveAt(@, j)],
                          completions[j].step))
    /\ UNCHANGED <<sinceReset, lastReveal>>

\* 200 ms pass: possible when no timer is due
Advance ==
    /\ Len(intervals) + Len(completions) > 0
    /\ \A i \in 1..Len(intervals) : intervals[i].rem > 0
    /\ \A j \in 1..Len(completions) : completions[j].rem > 0
    /\ intervals' = [i \in 1..Len(intervals) |->
                        [intervals[i] EXCEPT !.rem = @ - 1]]
    /\ completions' = [j \in 1..Len(completions) |->
                          [completions[j] EXCEPT !.rem = @ - 1]]
    /\ UNCHANGED <<AppState, DOM, sinceReset, lastReveal, audioVars, startupVars>>

\* launchProduction while no animation is running
LaunchWhenIdle ==
    /\ Len(intervals) = 0
    /\ LaunchProduction

\* The production animation alone: launches (also while earlier timers run),
\* resets and the timers, with the page's inputs left at their defaults.
NextApp ==
    \/ LaunchProduction
    \/ ResetSystem
    \/ \E i \in 1..Len(intervals), now \in Timestamps : IntervalTick(i, now)
    \/ \E j \in 1..Len(completions) : StepTimeout(j)
    \/ Advance

SpecApp == InitApp /\ [][NextApp]_vars

\* The inputs of the user alone, every slider over every input value; no
\* animation runs.
NextSliders ==
    \/ \E type \in TypeSet, v \in SliderInputs : MoveSlider(type, v)
    \/ \E option \in {EmojiOptions[k] : k \in 1..Len(EmojiOptions)} : SelectEmoji(option)
    \/ \E s \in {ServiceCards[k] : k \in 1..Len(ServiceCards)} : SelectService(s)
    \/ ResetSystem

SpecSliders == InitApp /\ [][NextSliders]_vars

\* The page with one animation at a time: the first and the last slider moved
\* to either end, the emoji and the service of the user, a launch only when no
\* interval timer is alive, and one reading of the clock.
NextPage ==
    \/ \E type \in {"recipe", "logistics"}, v \in {0, 100} : MoveSlider(type, v)
    \/ \E option \in {EmojiOptions[k] : k \in 1..Len(EmojiOptions)} : SelectEmoji(option)
    \/ \E s \in {ServiceCards[k] : k \in 1..Len(ServiceCards)} : SelectService(s)
    \/ LaunchWhenIdle
    \/ ResetSystem
    \/ \E i \in 1..Len(intervals) : IntervalTick(i, [hi |-> 1764012, lo |-> 345])
    \/ \E j \in 1..Len(completions) : StepTimeout(j)
    \/ Advance

SpecPage == InitApp /\ [][NextPage]_vars

\* The product card: one animation at a time, the brand and the emoji of the
\* user, and every reading of the clock.
NextCard ==
    \/ \E option \in {EmojiOptions[k] : k \in 1..Len(EmojiOptions)} : SelectEmoji(option)
    \/ \E b \in BrandInputs : TypeBrand(b)
    \/ LaunchWhenIdle
    \/ ResetSystem
    \/ \E i \in 1..Len(intervals), now \in Timestamps : IntervalTick(i, now)
    \/ \E j \in 1..Len(completions) : StepTimeout(j)
    \/ Advance

SpecCard == InitApp /\ [][NextCard]_vars

\* slider values on both sides of the label thresholds
ThresholdInputs == {59, 60, 79, 80}

\* The labels of the product card: two sliders are set around the thresholds
\* while no animation runs, then the production is launched.
NextLabels ==
    \/ \E type \in {"recipe", "logistics"}, v \in ThresholdInputs :
          Len(intervals) = 0 /\ MoveSlider(type, v)
    \/ LaunchWhenIdle
    \/ \E i \in 1..Len(intervals) :
          IntervalTick(i, [hi |-> 1764012, lo |-> 345])
    \/ \E j \in 1..Len(completions) : StepTimeout(j)
    \/ Advance

SpecLabels == InitApp /\ [][NextLabels]_vars

----------------------------------------------------------------------------
(* Properties of the page *)

Ascending(acts) == acts = [k \in 1..Len(acts) |-> k]

\* C3: after launchProduction with no further launch or reset during the run,
\* the interval timer of that launch activates the steps 1,2,3,4,5 in ascending
\* order, each exactly once and one per tick, and reveals the product card on
\* the following tick, never before all five steps were activated;
\* currentStep stays within 0..5.
C3_LaunchActivatesStepsInOrder ==
    /\ AppState.currentStep \in 0..5
    /\ \A i \in 1..Len(intervals) :
          intervals[i].clean => Ascending(intervals[i].acts)
    /\ lastReveal.clean => lastReveal.acts = <<1, 2, 3, 4, 5>>

\* C4: after resetSystem the product card is hidden and no step carries the
\* 'active' or 'completed' mark, until launchProduction is next invoked, also
\* when the reset comes while an animation is in progress.
C4_ResetStaysReset ==
    sinceReset => /\ ~DOM.productShown
                  /\ \A i \in Steps : DOM.stepClass[i] = {}

\* C5: immediately after resetSystem, from any reachable state, processConfig
\* is 75/80/90/70/85, currentStep is 0, selectedService is 'premium',
\* selectedEmoji is the default emoji and the product card is hidden.
C5_ResetRestoresDefaults ==
    LET after == resetSystem(Disturbed(World)) IN
        /\ after.AppState.processConfig.recipe = 75
        /\ after.AppState.processConfig.production = 80
        /\ after.AppState.processConfig.quality = 90
        /\ after.AppState.processConfig.packaging = 70
        /\ after.AppState.processConfig.logistics = 85
        /\ after.AppState.currentStep = 0
        /\ after.AppState.selectedService = "premium"
        /\ after.AppState.selectedEmoji = DefaultEmoji
        /\ ~after.DOM.productShown

\* a reset has run while an animation was on its way, and nothing ran since
C5_ResetDuringAnimation ==
    /\ sinceReset
    /\ Len(intervals) > 0
    /\ Len(completions) > 0
    /\ AppState.currentStep = 0
    /\ AppState.processConfig = DefaultConfig
    /\ \A i \in Steps : DOM.stepClass[i] = {}

\* the text is the decimal numeral of v followed by '%'
IsPercentOf(text, v) ==
    /\ Len(text) >= 2
    /\ text[Len(text)] = "%"
    /\ \A k \in 1..(Len(text) - 1) : IsDigit(text[k])
    /\ text[1] = "0" => Len(text) = 2
    /\ ParseInt(SubSeq(text, 1, Len(text) - 1)) = v

\* the fraction is v/100
IsHundredthsOf(r, v) == r.num * 100 = v * r.den

\* C6: updateSlider(type) sets processConfig[type] to the slider's value v, the
\* displayed percentage of that slider and of its step to v%, and the opacity
\* of that step and of its connector to v/100; the entries, displays and
\* opacities of the other four types, and currentStep, selectedService and
\* selectedEmoji, are unchanged.
C6_UpdateSliderFrame ==
    \A type \in TypeSet, v \in SliderInputs :
        LET before == SliderInput(World, type, v)
            after == updateSlider(before, type)
        IN  /\ after.AppState.processConfig[type] = v
            /\ IsPercentOf(after.DOM.sliderValues[type], v)
            /\ IsPercentOf(after.DOM.stepValues[type], v)
            /\ IsHundredthsOf(after.DOM.stepOpacity[type], v)
            /\ IsHundredthsOf(after.DOM.connectorStyle[type].opacity, v)
            /\ \A t \in TypeSet \ {type} :
                  /\ after.AppState.processConfig[t] = AppState.processConfig[t]
                  /\ after.DOM.sliders[t] = DOM.sliders[t]
                  /\ after.DOM.sliderValues[t] = DOM.sliderValues[t]
                  /\ after.DOM.stepValues[t] = DOM.stepValues[t]
                  /\ after.DOM.stepOpacity[t] = DOM.stepOpacity[t]
                  /\ after.DOM.connectorStyle[t] = DOM.connectorStyle[t]
            /\ after.AppState.currentStep = AppState.currentStep
            /\ after.AppState.selectedService = AppState.selectedService
            /\ after.AppState.selectedEmoji = AppState.selectedEmoji

\* two sliders stand off their defaults, one at 100 and one at 0, while the
\* three others show their defaults
C6_SlidersMoved ==
    /\ AppState.processConfig.recipe = 100
    /\ DOM.sliderValues.recipe = <<"1", "0", "0", "%">>
    /\ AppState.processConfig.quality = 0
    /\ DOM.stepValues.quality = <<"0", "%">>
    /\ \A t \in {"production", "packaging", "logistics"} :
          AppState.processConfig[t] = DefaultConfig[t]

\* 'TRK-' followed by exactly eight decimal digits
IsTrackingNumber(t) ==
    /\ Len(t) = 12
    /\ SubSeq(t, 1, 4) = <<"T", "R", "K", "-">>
    /\ \A k \in 5..12 : IsDigit(t[k])

\* the number the last eight digits of a clock reading spell
LastEightDigits(now) == (now.hi % 100) * 1000000 + now.lo

\* C7: whenever the product card is shown, the tracking-number field is 'TRK-'
\* followed by exactly eight decimal digits, the last eight digits of the
\* millisecond timestamp read at the reveal; the field is never shown unwritten.
C7_TrackingNumberPattern ==
    DOM.productShown =>
        /\ IsTrackingNumber(DOM.product.trackingNumber)
        /\ ParseInt(SubSeq(DOM.product.trackingNumber, 5, 12))
              = LastEightDigits(lastReveal.now)

\* the card is shown with a number whose digits needed their leading zeros
C7_CardShown ==
    /\ DOM.productShown
    /\ lastReveal.now = [hi |-> 1764012, lo |-> 345]
    /\ DOM.product.trackingNumber
          = <<"T", "R", "K", "-", "1", "2", "0", "0", "0", "3", "4", "5">>

PercentValues == 0..100

C18_ProcessConfigInRange ==
    \A t \in TypeSet : AppState.processConfig[t] \in 0..100

\* both ends of the range are in processConfig while an animation runs
C18_ExtremesStored ==
    /\ AppState.processConfig.recipe = 0
    /\ AppState.processConfig.logistics = 100
    /\ AppState.currentStep > 0

\* C21: at most one production animation timer is running at any time: a
\* launch during an earlier animation leaves the earlier timer unable to
\* activate steps or reveal the card, so a timer that a later launch has
\* overtaken is never alive.
C21_OneAnimationTimer ==
    /\ Len(intervals) <= 1
    /\ \A i \in 1..Len(intervals) : intervals[i].clean

----------------------------------------------------------------------------
(* The audio system: configuration *)

\* Sound implementations the factory holds once initialized.  A generator name
\* is kept as its words and separators, so that replace('-', '_') acts on it.
\* click_sound and slider_move are entries of the default configuration;
\* hover_sound spells its generator with a hyphen, success_sound is a recording,
\* midi_sound names a type and granular_sound a generator that do not exist.
Implementations ==
    [click_sound |-> [type |-> "web_audio", generator |-> <<"simple", "_", "tone">>],
     hover_sound |-> [type |-> "web_audio", generator |-> <<"simple", "-", "tone">>],
     slider_move |-> [type |-> "web_audio", generator |-> <<"noise", "_", "burst">>],
     success_sound |-> [type |-> "file", generator |-> <<>>],
     midi_sound |-> [type |-> "midi", generator |-> <<>>],
     granular_sound |-> [type |-> "web_audio", generator |-> <<"granular">>]]

\* production_complete is mapped by the default mappings but implemented nowhere
SoundNames == DOMAIN Implementations \cup {"production_complete"}

\* event type -> sound name, as SoundMappingSystem.mappings holds them
Mappings ==
    [button_click |-> "click_sound",
     button_hover |-> "hover_sound",
     slider_adjusted |-> "slider_move",
     production_completed |-> "success_sound",
     production_production_complete |-> "production_complete",
     midi_note |-> "midi_sound",
     grain_cloud |-> "granular_sound"]

EventTypes == DOMAIN Mappings \cup {"unmapped_event"}

\* the sounds of loadDefaultConfig of the factory, all of type web_audio
DefaultImplementations ==
    [click_sound |-> [type |-> "web_audio", generator |-> <<"simple", "_", "tone">>],
     hover_sound |-> [type |-> "web_audio", generator |-> <<"simple", "_", "tone">>],
     slider_move |-> [type |-> "web_audio", generator |-> <<"noise", "_", "burst">>],
     slider_release |-> [type |-> "web_audio", generator |-> <<"simple", "_", "tone">>],
     coin_sound |-> [type |-> "web_audio", generator |-> <<"complex", "_", "sequence">>],
     coin_gain |-> [type |-> "web_audio", generator |-> <<"chord", "_", "sequence">>],
     coin_loss |-> [type |-> "web_audio", generator |-> <<"simple", "_", "tone">>],
     level_up_sound |-> [type |-> "web_audio", generator |-> <<"envelope", "_", "sequence">>],
     machine_start |-> [type |-> "web_audio", generator |-> <<"envelope", "_", "sequence">>],
     success_sound |-> [type |-> "web_audio", generator |-> <<"chord", "_", "sequence">>],
     ambient_music |-> [type |-> "web_audio", generator |-> <<"filtered", "_", "noise">>],
     transition_sound |-> [type |-> "web_audio", generator |-> <<"pulse", "_", "wave">>]]

\* the basic mappings of loadDefaultConfig of the mapping system
DefaultMappings ==
    [button_click |-> "click_sound",
     button_hover |-> "hover_sound",
     slider_adjusted |-> "slider_move",
     slider_released |-> "slider_release",
     ui_emoji_select |-> "click_sound",
     ui_slider_adjust |-> "slider_move",
     ui_service_select |-> "click_sound",
     ui_system_reset |-> "click_sound",
     ui_product_share |-> "click_sound",
     ui_product_download |-> "click_sound",
     money_changed |-> "coin_sound",
     level_up |-> "level_up_sound",
     production_started |-> "machine_start",
     production_completed |-> "success_sound",
     production_production_start |-> "machine_start",
     production_step_recipe |-> "click_sound",
     production_step_production |-> "click_sound",
     production_step_quality |-> "click_sound",
     production_step_packaging |-> "click_sound",
     production_step_logistics |-> "click_sound",
     production_step_complete |-> "success_sound",
     production_production_complete |-> "production_complete",
     background_music |-> "ambient_music",
     ui_transition |-> "transition_sound"]

\* the conditional mappings of loadDefaultConfig, in the order of the literal;
\* a condition is kept as the comparison it makes on the event data
DefaultConditionalMappings ==
    <<[name |-> "money_increased", condition |-> "delta > 0", sound |-> "coin_gain"],
      [name |-> "money_decreased", condition |-> "delta < 0", sound |-> "coin_loss"],
      [name |-> "high_quality", condition |-> "quality > 80",
       sound |-> "high_quality_sound"],
      [name |-> "low_quality", condition |-> "quality < 30",
       sound |-> "low_quality_sound"]>>

\* What fetch(configPath) and response.json() come to: the fetch rejects
\* ("network_error"), the status is not ok ("http_error"), the body is no JSON
\* ("invalid_json"), the body is the JSON null ("json_null"), or the body is
\* an object ("json") that config describes.  "no_path" stands for a call of
\* initialize that names no file.
Response(kind, config) == [kind |-> kind, config |-> config]

\* the file cannot be fetched or parsed
FailedResponses == {"network_error", "http_error", "invalid_json"}

\* an implementations file in the flat form { sounds: ... }
FlatImplementations(sounds) ==
    [hasImplementations |-> FALSE, implementations |-> EmptyMap,
     hasSounds |-> TRUE, sounds |-> sounds]

\* an implementations file in the nested form { implementations: ... }, the
\* sounds grouped by their type
NestedImplementations(groups) ==
    [hasImplementations |-> TRUE, implementations |-> groups,
     hasSounds |-> FALSE, sounds |-> EmptyMap]

\* the object {}
EmptyObject ==
    [hasImplementations |-> FALSE, implementations |-> EmptyMap,
     hasSounds |-> FALSE, sounds |-> EmptyMap]

\* sound-implementations.json as the model's pages find it
ImplementationsFile == FlatImplementations(Implementations)

\* a nested file: two groups with sounds, one without
NestedImplementationsFile ==
    NestedImplementations(
        [web_audio |-> [hasSounds |-> TRUE,
                        sounds |-> [click_sound |-> [generator |-> <<"pulse", "_", "wave">>],
                                    hover_sound |-> [generator |-> <<"simple", "-", "tone">>]]],
         file |-> [hasSounds |-> TRUE,
                   sounds |-> [success_sound |-> [generator |-> <<>>]]],
         custom |-> [hasSounds |-> FALSE, sounds |-> EmptyMap]])

ImplementationResponses ==
    {Response(kind, EmptyObject) : kind \in FailedResponses \cup {"json_null", "no_path"}}
        \cup {Response("json", config) :
                 config \in {ImplementationsFile, NestedImplementationsFile, EmptyObject}}

\* a mappings file that is the mapping object itself
DirectMappings(entries) ==
    [hasMappings |-> FALSE, mappings |-> EmptyMap, entries |-> entries]

\* a mappings file in the form { mappings: ... }, the actions grouped by category
CategoryMappings(categories) ==
    [hasMappings |-> TRUE, mappings |-> categories, entries |-> EmptyMap]

\* sound-mappings.json as the model's pages find it
MappingsFile == DirectMappings(Mappings)

CategoryMappingsFile ==
    CategoryMappings(
        [button |-> [hasActions |-> TRUE,
                     actions |-> [click |-> [sound_name |-> "click_sound"],
                                  hover |-> [sound_name |-> "hover_sound"]]],
         ambience |-> [hasActions |-> FALSE, actions |-> EmptyMap]])

MappingResponses ==
    {Response(kind, DirectMappings(EmptyMap)) :
        kind \in FailedResponses \cup {"json_null", "no_path"}}
        \cup {Response("json", config) : config \in {MappingsFile, CategoryMappingsFile}}

\* what a method leaves: the object after the call, and whether the call threw
Returned(obj) == [obj |-> obj, thrown |-> FALSE]

Thrown(obj) == [obj |-> obj, thrown |-> TRUE]

----------------------------------------------------------------------------
(* SoundMappingSystem *)

\* conditionalMappings is a Map: its entries in insertion order
SoundMappingSystem_new ==
    [isInitialized |-> FALSE, mappings |-> EmptyMap, conditionalMappings |-> <<>>]

SoundMappingSystem_loadConfig(mapping, entries, conditional) ==
    [mapping EXCEPT !.mappings = entries, !.conditionalMappings = conditional]

SoundMappingSystem_loadDefaultConfig(mapping) ==
    SoundMappingSystem_loadConfig(mapping, DefaultMappings, DefaultConditionalMappings)

\* category_action -> sound_name, over the categories that have actions
flattenMappings(categories) ==
    LET pairs == UNION {{<<category \o "_" \o action,
                           categories[category].actions[action].sound_name>> :
                             action \in DOMAIN categories[category].actions} :
                        category \in {c \in DOMAIN categories : categories[c].hasActions}}
    IN  [name \in {pair[1] : pair \in pairs} |->
            (CHOOSE pair \in pairs : pair[1] = name)[2]]

\* the catch clause logs the error and throws it again; the files of the model
\* have no member conditional_mappings, which flattenConditionalMappings turns
\* into no conditional mapping
SoundMappingSystem_loadConfigFromFile(mapping, response) ==
    IF response.kind # "json" THEN Thrown(mapping)
    ELSE IF response.config.hasMappings
         THEN Returned(SoundMappingSystem_loadConfig(mapping,
                            flattenMappings(response.config.mappings), <<>>))
    ELSE Returned(SoundMappingSystem_loadConfig(mapping, response.config.entries, <<>>))

\* initialize(path), or initialize() when no path is given: the object after
\* the call and the value it resolves to
SoundMappingSystem_initialize(mapping, response) ==
    LET loaded == IF response.kind = "no_path"
                  THEN Returned(SoundMappingSystem_loadDefaultConfig(mapping))
                  ELSE SoundMappingSystem_loadConfigFromFile(mapping, response)
    IN  IF loaded.thrown THEN [obj |-> loaded.obj, result |-> FALSE]
        ELSE [obj |-> [loaded.obj EXCEPT !.isInitialized = TRUE], result |-> TRUE]

----------------------------------------------------------------------------
(* SoundFactory *)

SoundFactory_new(audioContext) ==
    [isInitialized |-> FALSE, audioContext |-> audioContext,
     implementations |-> EmptyMap, audioBufferPool |-> {}]

SoundFactory_loadConfig(factory, config) ==
    [factory EXCEPT !.implementations =
        IF config.hasSounds THEN config.sounds ELSE EmptyMap]

SoundFactory_loadDefaultConfig(factory) ==
    SoundFactory_loadConfig(factory, FlatImplementations(DefaultImplementations))

\* sound -> { type: implType, ...soundConfig }, over the groups that have sounds;
\* no file of the model lists a sound in two groups
flattenImplementations(groups) ==
    LET types == {t \in DOMAIN groups : groups[t].hasSounds}
        names == UNION {DOMAIN groups[t].sounds : t \in types}
    IN  [soundName \in names |->
            LET implType == CHOOSE t \in types : soundName \in DOMAIN groups[t].sounds
            IN  [type |-> implType,
                 generator |-> groups[implType].sounds[soundName].generator]]

\* variant: the catch clause throws the error again
SoundFactory_loadConfigFromFile_rethrows(factory, response) ==
    IF response.kind # "json" THEN Thrown(factory)
    ELSE IF response.config.hasImplementations
         THEN Returned(SoundFactory_loadConfig(factory,
                FlatImplementations(flattenImplementations(response.config.implementations))))
    ELSE Returned(SoundFactory_loadConfig(factory, response.config))

\* the catch clause loads the default configuration
SoundFactory_loadConfigFromFile(factory, response) ==
    IF response.kind # "json" THEN Returned(SoundFactory_loadDefaultConfig(factory))
    ELSE IF response.config.hasImplementations
         THEN Returned(SoundFactory_loadConfig(factory,
                FlatImplementations(flattenImplementations(response.config.implementations))))
    ELSE Returned(SoundFactory_loadConfig(factory, response.config))

\* initialize(path), or initialize() when no path is given: the object after
\* the call and the value it resolves to
SoundFactory_initialize(factory, response) ==
    LET loaded == IF response.kind = "no_path"
                  THEN Returned(SoundFactory_loadDefaultConfig(factory))
                  ELSE SoundFactory_loadConfigFromFile(factory, response)
    IN  IF loaded.thrown THEN [obj |-> loaded.obj, result |-> FALSE]
        ELSE [obj |-> [loaded.obj EXCEPT !.isInitialized = TRUE], result |-> TRUE]

\* what a call of a generating function yields: an error, a source node, or a
\* file load still under way
Throw == [kind |-> "throw", started |-> FALSE, silent |-> FALSE]

SourceNode(started, silent) == [kind |-> "source", started |-> started, silent |-> silent]

Loading == [kind |-> "loading", started |-> FALSE, silent |-> FALSE]

\* String.prototype.replace with a string pattern: the first occurrence only
RECURSIVE ReplaceFirst(_, _, _)
ReplaceFirst(s, from, to) ==
    IF s = <<>> THEN <<>>
    ELSE IF Head(s) = from THEN <<to>> \o Tail(s)
    ELSE <<Head(s)>> \o ReplaceFirst(Tail(s), from, to)

\* a buffer source that is connected but never started
generateSilentSound(factory) ==
    IF factory.audioContext = "none" THEN Throw ELSE SourceNode(FALSE, TRUE)

\* an oscillator, started and scheduled to stop
generateSimpleTone(factory) ==
    IF factory.audioContext = "none" THEN Throw ELSE SourceNode(TRUE, FALSE)

\* a buffer source of noise, started
generateNoiseBurst(factory) ==
    IF factory.audioContext = "none" THEN Throw ELSE SourceNode(TRUE, FALSE)

createSourceFromBuffer(factory) ==
    IF factory.audioContext = "none" THEN Throw ELSE SourceNode(TRUE, FALSE)

generateWebAudio(factory, implementation) ==
    LET normalizedGenerator == ReplaceFirst(implementation.generator, "-", "_") IN
    CASE normalizedGenerator \in {<<"simple", "_", "tone">>, <<"complex", "_", "sequence">>,
                                  <<"envelope", "_", "sequence">>, <<"chord", "_", "sequence">>,
                                  <<"pulse", "_", "wave">>, <<"frequency", "_", "sweep">>,
                                  <<"pulse", "_", "sequence">>}
            -> generateSimpleTone(factory)
      [] normalizedGenerator \in {<<"noise", "_", "burst">>, <<"filtered", "_", "noise">>}
            -> generateNoiseBurst(factory)
      [] OTHER -> Throw

\* no implementation carries a name, so the cache key of generateFromFile is
\* never in the pool and the file is fetched
generateFromFile(factory, implementation) == Loading

\* the fetch and the decoding are over: a source that is not started, or the
\* silent fallback of the catch clause
generateFromFileLoaded(factory, ok) ==
    IF ok /\ factory.audioContext # "none" THEN SourceNode(FALSE, FALSE)
    ELSE generateSilentSound(factory)

\* variant: an unknown type is answered with the silent fallback
generateSound_silentDefault(factory, soundName) ==
    IF ~factory.isInitialized THEN Throw
    ELSE IF soundName \notin DOMAIN factory.implementations THEN generateSilentSound(factory)
    ELSE IF soundName \in factory.audioBufferPool THEN createSourceFromBuffer(factory)
    ELSE LET implementation == factory.implementations[soundName] IN
         CASE implementation.type = "web_audio" -> generateWebAudio(factory, implementation)
           [] implementation.type = "file" -> generateFromFile(factory, implementation)
           [] implementation.type = "third_party" -> generateSimpleTone(factory)
           [] implementation.type = "custom" -> generateSimpleTone(factory)
           [] OTHER -> generateSilentSound(factory)

\* variant: a missing implementation is an error
generateSound_missingThrows(factory, soundName) ==
    IF ~factory.isInitialized THEN Throw
    ELSE IF soundName \notin DOMAIN factory.implementations THEN Throw
    ELSE IF soundName \in factory.audioBufferPool THEN createSourceFromBuffer(factory)
    ELSE LET implementation == factory.implementations[soundName] IN
         CASE implementation.type = "web_audio" -> generateWebAudio(factory, implementation)
           [] implementation.type = "file" -> generateFromFile(factory, implementation)
           [] implementation.type = "third_party" -> generateSimpleTone(factory)
           [] implementation.type = "custom" -> generateSimpleTone(factory)
           [] OTHER -> Throw

generateSound(factory, soundName) ==
    IF ~factory.isInitialized THEN Throw
    ELSE IF soundName \notin DOMAIN factory.implementations THEN generateSilentSound(factory)
    ELSE IF soundName \in factory.audioBufferPool THEN createSourceFromBuffer(factory)
    ELSE LET implementation == factory.implementations[soundName] IN
         CASE implementation.type = "web_audio" -> generateWebAudio(factory, implementation)
           [] implementation.type = "file" -> generateFromFile(factory, implementation)
           [] implementation.type = "third_party" -> generateSimpleTone(factory)
           [] implementation.type = "custom" -> generateSimpleTone(factory)
           [] OTHER -> Throw

----------------------------------------------------------------------------
(* AudioSettings and AudioSystem *)

AudioWorld ==
    [audioSystem |-> audioSystem, soundFactory |-> soundFactory,
     audioSettings |-> audioSettings, localStorage |-> localStorage,
     navigator |-> navigator, frames |-> frames, timers |-> timers,
     playing |-> playing, nextSource |-> nextSource, sources |-> sources,
     lastGen |-> lastGen,
     soundMapping |-> soundMapping, lastConfig |-> lastConfig,
     lastSettings |-> lastSettings, eventBus |-> eventBus, lastEvent |-> lastEvent,
     handled |-> <<>>, dispatched |-> <<>>, called |-> <<>>, error |-> FALSE,
     resolved |-> "none", resolvedSound |-> ""]

\* Math.max(0, Math.min(1, volume)), in hundredths
Clamp(volume) == IF volume < 0 THEN 0 ELSE IF volume > 100 THEN 100 ELSE volume

\* the number 1 as getVolume returns it: the product of two volumes in
\* hundredths is exact in ten-thousandths
One == 10000

\* Math.max(0, Math.min(1, volume)), in ten-thousandths
ClampProduct(volume) == IF volume < 0 THEN 0 ELSE IF volume > One THEN One ELSE volume

\* Names of members every object inherits from Object.prototype: for such a
\* name settings.categories[name] is the inherited member, an object that is
\* truthy and has no member volume or enabled of its own.
InheritedNames == {"constructor", "toString"}

\* this.settings.categories[category] is truthy
HasCategory(settings, category) ==
    category \in DOMAIN settings.categories \cup InheritedNames

\* The effective volume in ten-thousandths; category "" stands for no category.
\* The member enabled of an inherited object is undefined, which reads as
\* disabled (no behaviour of the model writes it).
getVolume(settings, category) ==
    IF ~settings.global.enabled \/ settings.global.mute THEN 0
    ELSE IF category # "" /\ HasCategory(settings, category)
         THEN IF category \notin DOMAIN settings.categories THEN 0
              ELSE IF ~settings.categories[category].enabled THEN 0
              ELSE ClampProduct(settings.global.masterVolume
                                   * settings.categories[category].volume)
         ELSE ClampProduct(settings.global.masterVolume * 100)

\* variant: the hundredths are written without their leading zero
NumberToJson_noLeadingZero(h) ==
    LET whole == h \div 100
        frac == h % 100
    IN  IF frac = 0 THEN ToStr(whole)
        ELSE IF frac % 10 = 0 THEN ToStr(whole) \o <<".">> \o ToStr(frac \div 10)
        ELSE ToStr(whole) \o <<".">> \o ToStr(frac)

\* JSON spells a number in the shortest way: 80 hundredths as 0.8, 5 as 0.05,
\* 100 as 1
NumberToJson(h) ==
    LET whole == h \div 100
        frac == h % 100
    IN  IF frac = 0 THEN ToStr(whole)
        ELSE IF frac % 10 = 0 THEN ToStr(whole) \o <<".">> \o ToStr(frac \div 10)
        ELSE ToStr(whole) \o <<".", DigitChars[(frac \div 10) + 1], DigitChars[(frac % 10) + 1]>>

JsonToNumber(t) ==
    IF \A i \in 1..Len(t) : t[i] # "." THEN 100 * ParseInt(t)
    ELSE LET dot == CHOOSE i \in 1..Len(t) : t[i] = "."
             frac == SubSeq(t, dot + 1, Len(t))
         IN  100 * ParseInt(SubSeq(t, 1, dot - 1))
               + (IF Len(frac) = 1 THEN 10 * ParseInt(frac) ELSE ParseInt(frac))

BooleanToJson(b) == IF b THEN <<"t", "r", "u", "e">> ELSE <<"f", "a", "l", "s", "e">>

JsonToBoolean(t) == t = <<"t", "r", "u", "e">>

\* JSON.stringify of the settings, or of some of their sections
JSON_stringify(settings) ==
    JsonText([section \in DOMAIN settings |->
        IF section = "global"
        THEN [enabled |-> BooleanToJson(settings.global.enabled),
              masterVolume |-> NumberToJson(settings.global.masterVolume),
              mute |-> BooleanToJson(settings.global.mute)]
        ELSE IF section = "categories"
        THEN [category \in DOMAIN settings.categories |->
                 [volume |-> NumberToJson(settings.categories[category].volume),
                  enabled |-> BooleanToJson(settings.categories[category].enabled)]]
        ELSE [maxConcurrentSounds |-> ToStr(settings.performance.maxConcurrentSounds),
              bufferPoolSize |-> ToStr(settings.performance.bufferPoolSize)]])

\* JSON.parse: it throws, or returns the object in value
JSON_parse(text) ==
    IF ~text.valid THEN Thrown(DefaultSettings)
    ELSE Returned([section \in DOMAIN text.members |->
        IF section = "global"
        THEN [enabled |-> JsonToBoolean(text.members.global.enabled),
              masterVolume |-> JsonToNumber(text.members.global.masterVolume),
              mute |-> JsonToBoolean(text.members.global.mute)]
        ELSE IF section = "categories"
        THEN [category \in DOMAIN text.members.categories |->
                 [volume |-> JsonToNumber(text.members.categories[category].volume),
                  enabled |-> JsonToBoolean(text.members.categories[category].enabled)]]
        ELSE [maxConcurrentSounds |-> ParseInt(text.members.performance.maxConcurrentSounds),
              bufferPoolSize |-> ParseInt(text.members.performance.bufferPoolSize)]])

\* { ...settings, ...newSettings }: a section of newSettings replaces the whole
\* section of settings
Spread(settings, newSettings) ==
    [section \in DOMAIN settings \cup DOMAIN newSettings |->
        IF section \in DOMAIN newSettings THEN newSettings[section]
        ELSE settings[section]]

loadFromStorage(a) ==
    IF ~a.localStorage.present THEN a
    ELSE LET parsed == JSON_parse(a.localStorage.text) IN
         IF parsed.thrown THEN a
         ELSE [a EXCEPT !.audioSettings = Spread(@, parsed.obj),
                        !.lastSettings = [op |-> "load", result |-> TRUE]]

saveToStorage(a) ==
    [a EXCEPT !.localStorage = Item(JSON_stringify(a.audioSettings))]

detectPlatform(a) ==
    IF a.navigator.mobile \/ a.navigator.lowEnd
    THEN [a EXCEPT !.audioSettings.performance.maxConcurrentSounds = 4,
                   !.audioSettings.performance.bufferPoolSize = 5]
    ELSE a

\* AudioSettings.initialize
AudioSettings_initialize(a) == detectPlatform(loadFromStorage(a))

\* by the words a sound name includes: click, hover or slider; coin, level or
\* success; machine or production; music or ambient; none of them
getSoundCategory(soundName) ==
    CASE soundName \in {"click_sound", "hover_sound", "slider_move", "slider_release"}
            -> "ui"
      [] soundName \in {"coin_sound", "coin_gain", "coin_loss", "level_up_sound",
                        "success_sound"} -> "game"
      [] soundName \in {"machine_start", "production_complete"} -> "production"
      [] soundName \in {"ambient_music"} -> "music"
      [] OTHER -> "game"

\* Event data are an object: a function of the members it has.  The object {}:
NoData == [member \in {} |-> ""]

\* condition(data): a comparison with a member the data lack is false
ConditionHolds(condition, data) ==
    CASE condition = "delta > 0" -> "delta" \in DOMAIN data /\ data.delta > 0
      [] condition = "delta < 0" -> "delta" \in DOMAIN data /\ data.delta < 0
      [] condition = "quality > 80" -> "quality" \in DOMAIN data /\ data.quality > 80
      [] condition = "quality < 30" -> "quality" \in DOMAIN data /\ data.quality < 30
      [] OTHER -> FALSE

\* variant: the base mapping of the action comes before the conditional mappings
getSoundForAction_baseFirst(mapping, action, data) ==
    IF ~mapping.isInitialized THEN ""
    ELSE LET holding == SelectSeq(mapping.conditionalMappings,
                            LAMBDA entry : ConditionHolds(entry.condition, data))
         IN  IF action \in DOMAIN mapping.mappings THEN mapping.mappings[action]
             ELSE IF holding # <<>> THEN Head(holding).sound
             ELSE ""

\* "" stands for null
getSoundForAction(mapping, action, data) ==
    IF ~mapping.isInitialized THEN ""
    ELSE LET holding == SelectSeq(mapping.conditionalMappings,
                            LAMBDA entry : ConditionHolds(entry.condition, data))
         IN  IF holding # <<>> THEN Head(holding).sound
             ELSE IF action \in DOMAIN mapping.mappings THEN mapping.mappings[action]
             ELSE ""

\* a playSound call resolves to true or false, or rejects ("error")
Resolve(a, soundName, result) ==
    [a EXCEPT !.resolved = result, !.resolvedSound = soundName]

Suspend(a, frame) == [a EXCEPT !.frames = @ (+) SetToBag({frame})]

Resume(a, frame) == [a EXCEPT !.frames = @ (-) SetToBag({frame})]

OutcomeName(out) ==
    IF out.kind = "source" /\ out.silent THEN "silent" ELSE out.kind

\* variant: the source is tracked without its timeout
trackActiveSound_noTimeout(a, source) ==
    LET id == a.nextSource + 1 IN
    [a EXCEPT !.audioSystem.activeSounds = @ \cup {id},
              !.playing = IF source.started THEN @ \cup {id} ELSE @,
              !.nextSource = id]

trackActiveSound(a, source) ==
    LET id == a.nextSource + 1 IN
    [a EXCEPT !.audioSystem.activeSounds = @ \cup {id},
              !.timers = Append(@, id),
              !.playing = IF source.started THEN @ \cup {id} ELSE @,
              !.nextSource = id]

\* the timeout callback of trackActiveSound
soundTimeout(a, source) ==
    IF source \in a.audioSystem.activeSounds
    THEN [a EXCEPT !.audioSystem.activeSounds = @ \ {source},
                   !.playing = @ \ {source}]
    ELSE a

\* the onended callback of a source
soundEnded(a, source) ==
    [a EXCEPT !.audioSystem.activeSounds = @ \ {source},
              !.playing = @ \ {source}]

\* the try block of playSound up to its await of generateSound
playSoundTry(a, soundName) ==
    LET category == getSoundCategory(soundName)
        volume == getVolume(a.audioSettings, category)
        out == generateSound(a.soundFactory, soundName)
    IN  IF volume <= 0 THEN Resolve(a, soundName, "false")
        ELSE Suspend([a EXCEPT !.lastGen = [sound |-> soundName,
                                             outcome |-> OutcomeName(out)]],
                     [pc |-> IF out.kind = "loading" THEN "loading" ELSE "generated",
                      sound |-> soundName, outcome |-> out, data |-> NoData,
                      volume |-> volume])

\* playSound up to its first await
playSound(a, soundName) ==
    IF ~a.audioSystem.isInitialized THEN Resolve(a, soundName, "false")
    ELSE IF a.audioSystem.audioContext = "suspended"
         THEN Suspend(a, [pc |-> "resume", sound |-> soundName, outcome |-> Throw,
                          data |-> NoData, volume |-> 0])
    ELSE IF a.audioSystem.audioContext = "none"
         THEN Resolve(a, soundName, "false")
    ELSE playSoundTry(a, soundName)

\* playSound after its await of unlockAudioContext
playSoundResumed(a, soundName, resumed) ==
    IF ~resumed THEN Resolve(a, soundName, "false")
    ELSE IF a.audioSystem.audioContext = "none"
         THEN Resolve(a, soundName, "false")
    ELSE playSoundTry(a, soundName)

\* The source generateSound delivered has no member gainNode and no member
\* soundName ("" stands for undefined): the gain node is made here.  played
\* is history: the name playSound was called with, which no code stores on
\* the source.
applyVolumeToSource(a, soundName, volume) ==
    [a EXCEPT !.sources = (a.nextSource + 1 :> [soundName |-> "", played |-> soundName,
                                                 gain |-> volume]) @@ @]

\* variant: no catch clause around the generation
playSoundGenerated_noCatch(a, soundName, out, volume) ==
    IF out.kind = "throw" THEN Resolve(a, soundName, "error")
    ELSE Resolve(trackActiveSound(applyVolumeToSource(a, soundName, volume), out),
                 soundName, "true")

\* playSound after its await of generateSound, with the volume it read before
playSoundGenerated(a, soundName, out, volume) ==
    IF out.kind = "throw" THEN Resolve(a, soundName, "false")
    ELSE Resolve(trackActiveSound(applyVolumeToSource(a, soundName, volume), out),
                 soundName, "true")

\* variant: an event without a sound is given the sound of a click
handleAudioEvent_defaultSound(a, eventType, data) ==
    IF ~a.audioSystem.isInitialized THEN a
    ELSE IF getVolume(a.audioSettings, "") = 0 THEN a
    ELSE LET soundName == getSoundForAction(a.soundMapping, eventType, data) IN
         IF Cardinality(a.audioSystem.activeSounds) >= a.audioSystem.maxConcurrentSounds THEN a
         ELSE playSound(a, IF soundName = "" THEN "click_sound" ELSE soundName)

handleAudioEvent(a, eventType, data) ==
    IF ~a.audioSystem.isInitialized THEN a
    ELSE IF getVolume(a.audioSettings, "") = 0 THEN a
    ELSE LET soundName == getSoundForAction(a.soundMapping, eventType, data) IN
         IF soundName = "" THEN a
         ELSE IF Cardinality(a.audioSystem.activeSounds) >= a.audioSystem.maxConcurrentSounds THEN a
         ELSE playSound(a, soundName)

\* { ...data, eventType }
WithEventType(data, eventType) ==
    [member \in DOMAIN data \cup {"eventType"} |->
        IF member = "eventType" THEN eventType ELSE data[member]]

\* A callback is the subscription of the audio system ("system", with its
\* number) or a function of other code of the page: one that returns
\* ("listener") or one that throws ("thrower").
SystemCallback(subscription) == [kind |-> "system", id |-> subscription]

\* this.subscribers.get(eventType) || []
Callbacks(bus, eventType) ==
    IF eventType \in DOMAIN bus.subscribers THEN bus.subscribers[eventType] ELSE <<>>

\* AudioEventBus.subscribe
subscribe(a, eventType, callback) ==
    LET subscribers == a.eventBus.subscribers IN
    [a EXCEPT !.eventBus.subscribers =
        [type \in DOMAIN subscribers \cup {eventType} |->
            IF type = eventType THEN Append(Callbacks(a.eventBus, eventType), callback)
            ELSE subscribers[type]]]

\* callbacks.indexOf(callback), counted from 1; 0 when it is absent
IndexOf(callbacks, callback) ==
    IF \E i \in 1..Len(callbacks) : callbacks[i] = callback
    THEN CHOOSE i \in 1..Len(callbacks) :
            /\ callbacks[i] = callback
            /\ \A j \in 1..(i - 1) : callbacks[j] # callback
    ELSE 0

\* AudioEventBus.unsubscribe
unsubscribe(a, eventType, callback) ==
    LET index == IndexOf(Callbacks(a.eventBus, eventType), callback) IN
    IF index = 0 THEN a
    ELSE [a EXCEPT !.eventBus.subscribers[eventType] = RemoveAt(@, index)]

\* One call of a callback with the data of an event.  The subscription of the
\* audio system runs handleAudioEvent(data.eventType, data); handled lists the
\* event types it was called with in one task, called every call that was
\* made.
callSubscription(a, callback, data) ==
    LET a1 == [a EXCEPT !.called = Append(@, [callback |-> callback,
                                              eventType |-> data.eventType])]
    IN  CASE callback.kind = "system" ->
               Returned([handleAudioEvent(a1, data.eventType, data) EXCEPT
                            !.handled = Append(@, data.eventType)])
          [] callback.kind = "thrower" -> Thrown(a1)
          [] OTHER -> Returned(a1)

\* forEach without the try and catch: the first error ends the publication
RECURSIVE publishToUncaught(_, _, _, _)
publishToUncaught(a, callbacks, eventType, data) ==
    IF callbacks = <<>> \/ a.error THEN a
    ELSE LET call == callSubscription(a, Head(callbacks), WithEventType(data, eventType))
         IN  publishToUncaught([call.obj EXCEPT !.error = call.thrown],
                               Tail(callbacks), eventType, data)

\* callbacks.forEach: every call in a try whose catch logs the error
RECURSIVE publishTo(_, _, _, _)
publishTo(a, callbacks, eventType, data) ==
    IF callbacks = <<>> THEN a
    ELSE LET call == callSubscription(a, Head(callbacks), WithEventType(data, eventType))
         IN  publishTo(call.obj, Tail(callbacks), eventType, data)

\* variant: no try and catch around the call of a callback
publish_noCatch(a, eventType, data) ==
    publishToUncaught(publishToUncaught(a, Callbacks(a.eventBus, eventType),
                                        eventType, data),
                      Callbacks(a.eventBus, "*"), eventType, data)

\* AudioEventBus.publish: the callbacks of the event type, then those of '*'
publish(a, eventType, data) ==
    publishTo(publishTo(a, Callbacks(a.eventBus, eventType), eventType, data),
              Callbacks(a.eventBus, "*"), eventType, data)

\* document.dispatchEvent of an audioEvent: the one listener of the one bus
\* publishes detail.type with detail.data
dispatchAudioEvent(a, detail) == publish(a, detail.type, detail.data)

\* a playAudioEvent call resolves to false without dispatching
Ignored(a, eventType, because) ==
    [a EXCEPT !.lastEvent = [type |-> eventType, result |-> "false",
                             because |-> because, dispatched |-> 0,
                             handled |-> <<>>, called |-> <<>>]]

\* the end of window.playAudioEvent: the event is dispatched, true is returned
playAudioEventDispatch(a, eventType, data) ==
    LET a1 == dispatchAudioEvent(a, [type |-> eventType, data |-> data]) IN
    [a1 EXCEPT !.lastEvent = [type |-> eventType, result |-> "true",
                              because |-> "", dispatched |-> 1,
                              handled |-> a1.handled, called |-> a1.called]]

\* window.playAudioEvent up to its await of unlockAudioContext
playAudioEvent(a, eventType, data) ==
    IF ~a.audioSystem.isInitialized THEN Ignored(a, eventType, "not initialized")
    ELSE IF a.audioSystem.audioContext = "suspended"
         THEN Suspend(a, [pc |-> "unlock", sound |-> eventType, outcome |-> Throw,
                          data |-> data, volume |-> 0])
    ELSE IF a.audioSystem.audioContext = "none" THEN Ignored(a, eventType, "no context")
    ELSE playAudioEventDispatch(a, eventType, data)

\* variant: the event is dispatched whatever resume() came to
playAudioEventResumed_dispatchesAnyway(a, eventType, data, resumed) ==
    IF a.audioSystem.audioContext = "none" THEN Ignored(a, eventType, "no context")
    ELSE playAudioEventDispatch(a, eventType, data)

\* window.playAudioEvent after its await of unlockAudioContext
playAudioEventResumed(a, eventType, data, resumed) ==
    IF ~resumed THEN Ignored(a, eventType, "resume failed")
    ELSE IF a.audioSystem.audioContext = "none" THEN Ignored(a, eventType, "no context")
    ELSE playAudioEventDispatch(a, eventType, data)

\* variant: the earlier subscription stays on the bus
setupEventListeners_noUnsubscribe(a) ==
    LET subscription == a.audioSystem.eventBusSubscription + 1 IN
    [subscribe(a, "*", SystemCallback(subscription)) EXCEPT
        !.audioSystem.eventBusSubscription = subscription,
        !.audioSystem.listeners = @ + 1]

\* the earlier subscription is taken off the bus, a new callback is subscribed
\* to '*', and the document gets one more listener of each kind
setupEventListeners(a) ==
    LET subscription == a.audioSystem.eventBusSubscription + 1
        a1 == IF a.audioSystem.eventBusSubscription # 0
              THEN unsubscribe(a, "*",
                               SystemCallback(a.audioSystem.eventBusSubscription))
              ELSE a
    IN  [subscribe(a1, "*", SystemCallback(subscription)) EXCEPT
            !.audioSystem.eventBusSubscription = subscription,
            !.audioSystem.listeners = @ + 1]

\* variant: only the sources that are sounding are stopped and removed
stopAllSounds_soundingOnly(a) ==
    [a EXCEPT !.playing = @ \ a.audioSystem.activeSounds,
              !.audioSystem.activeSounds = @ \ a.playing]

stopAllSounds(a) ==
    [a EXCEPT !.playing = @ \ a.audioSystem.activeSounds,
              !.audioSystem.activeSounds = {}]

handleEnabledChange(a, enabled) ==
    IF ~enabled THEN stopAllSounds(a) ELSE a

\* AudioSystem.handleVolumeChange: every source of activeSounds has a gain node
handleVolumeChange(a) ==
    [a EXCEPT !.sources =
        [source \in DOMAIN @ |->
            IF source \in a.audioSystem.activeSounds
            THEN LET soundName == IF a.sources[source].soundName = "" THEN "unknown"
                                  ELSE a.sources[source].soundName
                 IN  [@[source] EXCEPT !.gain =
                         getVolume(a.audioSettings, getSoundCategory(soundName))]
            ELSE @[source]]]

\* document.dispatchEvent of a change event of the settings: dispatched lists
\* the events one call dispatched.  Every audioVolumeChanged listener of the
\* system runs handleVolumeChange, and running it again changes nothing.
notifyVolumeChange(a) ==
    LET a1 == [a EXCEPT !.dispatched = Append(@, "audioVolumeChanged")] IN
    IF a.audioSystem.listeners > 0 THEN handleVolumeChange(a1) ELSE a1

\* every audioEnabledChanged listener of the system runs handleEnabledChange,
\* and running it again changes nothing
notifyEnabledChange(a) ==
    LET a1 == [a EXCEPT !.dispatched = Append(@, "audioEnabledChanged")] IN
    IF a.audioSystem.listeners > 0
    THEN handleEnabledChange(a1, a.audioSettings.global.enabled)
    ELSE a1

\* the listeners of audioCategoryChanged and of audioSettingsChanged are none
notifyCategoryChange(a, category) ==
    [a EXCEPT !.dispatched = Append(@, "audioCategoryChanged")]

notifySettingsChange(a) ==
    [a EXCEPT !.dispatched = Append(@, "audioSettingsChanged")]

\* AudioSettings.setEnabled
setEnabled(a, enabled) ==
    notifyEnabledChange(
        saveToStorage([a EXCEPT !.audioSettings.global.enabled = enabled]))

\* AudioSettings.setMute
setMute(a, mute) ==
    notifyVolumeChange(saveToStorage([a EXCEPT !.audioSettings.global.mute = mute]))

\* AudioSettings.setMasterVolume
setMasterVolume(a, volume) ==
    notifyVolumeChange(
        saveToStorage([a EXCEPT !.audioSettings.global.masterVolume = Clamp(volume)]))

\* AudioSettings.setCategoryVolume: for an inherited name the member volume is
\* written on the inherited object, which is no part of the settings
setCategoryVolume(a, category, volume) ==
    IF ~HasCategory(a.audioSettings, category) THEN a
    ELSE LET a1 == IF category \in DOMAIN a.audioSettings.categories
                   THEN [a EXCEPT !.audioSettings.categories[category].volume =
                                      Clamp(volume)]
                   ELSE a
         IN  notifyVolumeChange(saveToStorage(a1))

\* AudioSettings.setCategoryEnabled
setCategoryEnabled(a, category, enabled) ==
    IF ~HasCategory(a.audioSettings, category) THEN a
    ELSE LET a1 == IF category \in DOMAIN a.audioSettings.categories
                   THEN [a EXCEPT !.audioSettings.categories[category].enabled = enabled]
                   ELSE a
         IN  notifyCategoryChange(saveToStorage(a1), category)

\* AudioSettings.updateSettings: a section of newSettings has all its members
updateSettings(a, newSettings) ==
    notifySettingsChange(
        saveToStorage([a EXCEPT !.audioSettings = Spread(@, newSettings)]))

\* AudioSettings.resetToDefaults: the defaults pass through JSON
resetToDefaults(a) ==
    notifySettingsChange(saveToStorage(detectPlatform(
        [a EXCEPT !.audioSettings = JSON_parse(JSON_stringify(DefaultSettings)).obj])))

\* AudioSettings.validateSettings: the errors it lists
validateSettings(settings) ==
    LET errors ==
           (IF settings.global.masterVolume < 0 \/ settings.global.masterVolume > 100
            THEN {"masterVolume"} ELSE {})
           \cup {category \in DOMAIN settings.categories :
                    \/ settings.categories[category].volume < 0
                    \/ settings.categories[category].volume > 100}
           \cup (IF settings.performance.maxConcurrentSounds < 1
                 THEN {"maxConcurrentSounds"} ELSE {})
           \cup (IF settings.performance.bufferPoolSize < 0
                 THEN {"bufferPoolSize"} ELSE {})
    IN  [isValid |-> errors = {}, errors |-> errors]

exportSettings(a) == JSON_stringify(a.audioSettings)

\* AudioSettings.importSettings: the world after the call, and what it returns
importSettings(a, settingsJson) ==
    LET parsed == JSON_parse(settingsJson) IN
    IF parsed.thrown
    THEN [obj |-> [a EXCEPT !.lastSettings = [op |-> "import", result |-> FALSE]],
          result |-> FALSE]
    ELSE [obj |-> [updateSettings(a, parsed.obj) EXCEPT
                      !.lastSettings = [op |-> "import", result |-> TRUE]],
          result |-> TRUE]

\* variant: the cap is taken from the performance settings
AudioSystem_initialize_settingsCap(a, context, pool, mappingsResponse, implementationsResponse) ==
    LET mapping == SoundMappingSystem_initialize(SoundMappingSystem_new, mappingsResponse)
        factory == SoundFactory_initialize(SoundFactory_new(context),
                                           implementationsResponse)
        a1 == setupEventListeners(AudioSettings_initialize(a))
    IN  [a1 EXCEPT !.audioSystem.isInitialized = TRUE,
                  !.audioSystem.audioContext = context,
                  !.audioSystem.maxConcurrentSounds =
                      a1.audioSettings.performance.maxConcurrentSounds,
                  !.soundMapping = mapping.obj,
                  !.soundFactory = [factory.obj EXCEPT !.audioBufferPool = pool],
                  !.lastConfig = [mappings |-> mappingsResponse.kind,
                                  mappingsResult |-> mapping.result,
                                  implementations |-> implementationsResponse.kind,
                                  implementationsResult |-> factory.result]]

\* AudioSystem.initialize with the context createAudioContext obtained, the
\* recordings preloadCriticalSounds cached and what the two files came to; the
\* results of the two initialize calls are not looked at
AudioSystem_initialize(a, context, pool, mappingsResponse, implementationsResponse) ==
    LET mapping == SoundMappingSystem_initialize(SoundMappingSystem_new, mappingsResponse)
        factory == SoundFactory_initialize(SoundFactory_new(context),
                                           implementationsResponse)
        a1 == setupEventListeners(AudioSettings_initialize(a))
    IN  [a1 EXCEPT !.audioSystem.isInitialized = TRUE,
                  !.audioSystem.audioContext = context,
                  !.soundMapping = mapping.obj,
                  !.soundFactory = [factory.obj EXCEPT !.audioBufferPool = pool],
                  !.lastConfig = [mappings |-> mappingsResponse.kind,
                                  mappingsResult |-> mapping.result,
                                  implementations |-> implementationsResponse.kind,
                                  implementationsResult |-> factory.result]]

\* window.initializeAudioSystem, both files loaded
initializeAudioSystem(a, context, pool) ==
    AudioSystem_initialize(a, context, pool, Response("json", MappingsFile),
                           Response("json", ImplementationsFile))

handleVisibilityChange(a, hidden) ==
    IF hidden /\ a.audioSystem.audioContext = "running"
    THEN [a EXCEPT !.audioSystem.audioContext = "suspended"]
    ELSE IF ~hidden /\ a.audioSystem.audioContext = "suspended"
    THEN [a EXCEPT !.audioSystem.audioContext = "running"]
    ELSE a

----------------------------------------------------------------------------
(* The audio system: steps *)

\* events published and playSound calls made, in the run of SpecAudio
MaxEvents == 9

\* the same, in the runs of the other specifications
MaxPlays == 3

\* calls of AudioSystem.initialize on one instance
MaxInits == 3

\* functions of the page subscribed to one event type
MaxSubscribers == 2

WriteAudioObjects(a) ==
    /\ audioSystem' = a.audioSystem
    /\ soundFactory' = a.soundFactory
    /\ audioSettings' = a.audioSettings
    /\ localStorage' = a.localStorage
    /\ navigator' = a.navigator
    /\ frames' = a.frames
    /\ timers' = a.timers
    /\ playing' = a.playing
    /\ nextSource' = a.nextSource
    /\ sources' = [source \in a.audioSystem.activeSounds |-> a.sources[source]]
    /\ lastPlay' = IF a.resolved = "none" THEN lastPlay
                    ELSE [sound |-> a.resolvedSound, result |-> a.resolved,
                          added |-> a.audioSystem.activeSounds
                                       \ audioSystem.activeSounds # {}]
    /\ lastGen' = a.lastGen
    /\ soundMapping' = a.soundMapping
    /\ lastConfig' = a.lastConfig
    /\ lastSettings' = a.lastSettings
    /\ eventBus' = a.eventBus
    /\ lastEvent' = a.lastEvent

WriteAudio(a) ==
    /\ WriteAudioObjects(a)
    /\ UNCHANGED <<appVars, startupVars>>

\* no continuation waits in the microtask queue: the current task is over
TaskOver == \A f \in BagToSet(frames) : f.pc # "generated"

Started == nextSource + BagCardinality(frames)

InitializeAudio(context, pool) ==
    /\ ~audioSystem.isInitialized
    /\ WriteAudio(initializeAudioSystem(AudioWorld, context, pool))

SetMasterVolume(volume) ==
    /\ TaskOver
    /\ Clamp(volume) # audioSettings.global.masterVolume
    /\ WriteAudio(setMasterVolume(AudioWorld, volume))

\* a text that was exported, a text of the global section alone, or a broken one
ImportSettings(settingsJson) ==
    /\ TaskOver
    /\ WriteAudio(importSettings(AudioWorld, settingsJson).obj)

ResetToDefaults ==
    /\ TaskOver
    /\ audioSettings # DefaultSettings
    /\ WriteAudio(resetToDefaults(AudioWorld))

\* The page is loaded anew, on the same device or on another kind of device
\* (the browser emulating it): every object is constructed again, the item of
\* localStorage stays.
ReloadPage(device) ==
    /\ TaskOver
    /\ audioSystem.isInitialized
    /\ audioSystem' = AudioSystem_new
    /\ eventBus' = [subscribers |-> EmptyMap]
    /\ lastEvent' = NoEvent
    /\ soundFactory' = SoundFactory_new("none")
    /\ soundMapping' = SoundMappingSystem_new
    /\ audioSettings' = DefaultSettings
    /\ navigator' = device
    /\ frames' = EmptyBag
    /\ timers' = <<>>
    /\ playing' = {}
    /\ nextSource' = 0
    /\ sources' = NoSources
    /\ lastPlay' = NoPlay
    /\ lastGen' = NoGen
    /\ lastConfig' = NoConfig
    /\ lastSettings' = [op |-> "none", result |-> FALSE]
    /\ audioManager' = [isInitialized |-> FALSE]
    /\ startup' = [initialized |-> FALSE, listeners |-> InteractionTypes,
                   timerPending |-> TRUE, awaiting |-> 0, calls |-> 0]
    /\ UNCHANGED <<localStorage, appVars>>

\* AudioSystem.initialize, whatever the two files come to
InitializeFrom(context, mappingsResponse, implementationsResponse) ==
    /\ ~audioSystem.isInitialized
    /\ WriteAudio(AudioSystem_initialize(AudioWorld, context, {}, mappingsResponse,
                                         implementationsResponse))

\* AudioEventBus.publish reaches the subscription of the audio system; several
\* events can be published within one task
PublishAudioEvent(eventType, max) ==
    /\ Started < max
    /\ WriteAudio(publish(AudioWorld, eventType, NoData))

\* AudioManager.initialize up to its await of window.initializeAudioSystem
\* (AudioSystem and AudioEventBus are loaded with it): calls counts the
\* invocations, awaiting those that have not continued yet
AudioManager_initialize(st) ==
    [st EXCEPT !.calls = @ + 1, !.awaiting = @ + 1]

\* initializeOnInteraction; the listener was added with once, and the three
\* removeEventListener calls name no capture listener, so they remove nothing
initializeOnInteraction(st, manager, type) ==
    LET st1 == [st EXCEPT !.listeners = @ \ {type}] IN
    IF ~st1.initialized /\ ~manager.isInitialized
    THEN AudioManager_initialize([st1 EXCEPT !.initialized = TRUE])
    ELSE st1

\* the callback of the 5 s timer
silentInitialization(st, manager) ==
    LET st1 == [st EXCEPT !.timerPending = FALSE] IN
    IF ~st1.initialized /\ ~manager.isInitialized
    THEN AudioManager_initialize(st1)
    ELSE st1

\* a first click, touch or key press of the user
Interaction(type) ==
    /\ TaskOver
    /\ type \in startup.listeners
    /\ startup' = initializeOnInteraction(startup, audioManager, type)
    /\ UNCHANGED <<audioManager, appVars, audioVars>>

\* five seconds have passed since DOMContentLoaded
SilentInitTimer ==
    /\ TaskOver
    /\ startup.timerPending
    /\ startup' = silentInitialization(startup, audioManager)
    /\ UNCHANGED <<audioManager, appVars, audioVars>>

\* AudioManager.initialize continues: AudioSystem.initialize has resolved to
\* true, or to false after an error
InitializationSettled(context, success) ==
    /\ TaskOver
    /\ startup.awaiting > 0
    /\ startup' = [startup EXCEPT !.awaiting = @ - 1]
    /\ audioManager' = [isInitialized |-> success]
    /\ WriteAudioObjects(
          IF success THEN initializeAudioSystem(AudioWorld, context, {})
          ELSE [AudioWorld EXCEPT !.audioSystem.isInitialized = FALSE])
    /\ UNCHANGED appVars

\* AudioSystem.initialize is called again on the initialized instance
Reinitialize(context) ==
    /\ TaskOver
    /\ audioSystem.isInitialized
    /\ audioSystem.eventBusSubscription < MaxInits
    /\ WriteAudio(initializeAudioSystem(AudioWorld, context, {}))

\* a call of window.playAudioEvent
CallPlayAudioEvent(eventType, data, max) ==
    /\ Started < max
    /\ WriteAudio(playAudioEvent(AudioWorld, eventType, data))

\* audioContext.resume() settles for a playAudioEvent call
UnlockSettled(f, resumed) ==
    /\ TaskOver
    /\ BagIn(f, frames)
    /\ f.pc = "unlock"
    /\ LET a == Resume(AudioWorld, f)
           a1 == IF resumed THEN [a EXCEPT !.audioSystem.audioContext = "running"]
                 ELSE a
       IN  WriteAudio(playAudioEventResumed(a1, f.sound, f.data, resumed))

\* a direct call of AudioSystem.playSound
CallPlaySound(soundName, max) ==
    /\ Started < max
    /\ WriteAudio(playSound(AudioWorld, soundName))

\* audioContext.resume() settles for a call waiting in unlockAudioContext
ResumeSettled(f, resumed) ==
    /\ TaskOver
    /\ BagIn(f, frames)
    /\ f.pc = "resume"
    /\ LET a == Resume(AudioWorld, f)
           a1 == IF resumed THEN [a EXCEPT !.audioSystem.audioContext = "running"]
                 ELSE a
       IN  WriteAudio(playSoundResumed(a1, f.sound, resumed))

\* the microtask that continues playSound after generateSound
SoundGenerated(f) ==
    /\ BagIn(f, frames)
    /\ f.pc = "generated"
    /\ WriteAudio(playSoundGenerated(Resume(AudioWorld, f), f.sound, f.outcome, f.volume))

\* the file of generateFromFile is loaded, or not; playSound continues
SoundLoaded(f, ok) ==
    /\ TaskOver
    /\ BagIn(f, frames)
    /\ f.pc = "loading"
    /\ LET out == generateFromFileLoaded(soundFactory, ok)
           a == [Resume(AudioWorld, f) EXCEPT
                    !.lastGen = [sound |-> f.sound, outcome |-> OutcomeName(out)]]
       IN  WriteAudio(playSoundGenerated(a, f.sound, out, f.volume))

\* a started source comes to its end
SoundEnded(source) ==
    /\ TaskOver
    /\ source \in playing
    /\ WriteAudio(soundEnded(AudioWorld, source))

\* the oldest pending 10 s timeout fires
SoundTimeout ==
    /\ TaskOver
    /\ timers # <<>>
    /\ WriteAudio(soundTimeout([AudioWorld EXCEPT !.timers = Tail(@)], Head(timers)))

SetEnabled(enabled) ==
    /\ TaskOver
    /\ enabled # audioSettings.global.enabled
    /\ WriteAudio(setEnabled(AudioWorld, enabled))

SetMute(mute) ==
    /\ TaskOver
    /\ mute # audioSettings.global.mute
    /\ WriteAudio(setMute(AudioWorld, mute))

\* other code of the page subscribes one of its functions to the bus
Subscribe(eventType, callback) ==
    /\ TaskOver
    /\ Len(SelectSeq(Callbacks(eventBus, eventType),
                     LAMBDA other : other.kind # "system")) < MaxSubscribers
    /\ WriteAudio(subscribe(AudioWorld, eventType, callback))

\* and takes one of them off the bus, subscribed or not
Unsubscribe(eventType, callback) ==
    /\ TaskOver
    /\ WriteAudio(unsubscribe(AudioWorld, eventType, callback))

SetCategoryVolume(category, volume) ==
    /\ TaskOver
    /\ WriteAudio(setCategoryVolume(AudioWorld, category, volume))

SetCategoryEnabled(category, enabled) ==
    /\ TaskOver
    /\ WriteAudio(setCategoryEnabled(AudioWorld, category, enabled))

VisibilityChange(hidden) ==
    /\ TaskOver
    /\ audioSystem.isInitialized
    /\ audioSystem.audioContext = (IF hidden THEN "running" ELSE "suspended")
    /\ WriteAudio(handleVisibilityChange(AudioWorld, hidden))

Frames == BagToSet(frames)

\* The cap: clicks published while the context runs or is suspended.
NextAudio ==
    \/ \E context \in {"suspended", "running"} : InitializeAudio(context, {})
    \/ PublishAudioEvent("button_click", MaxEvents)
    \/ \E f \in Frames : ResumeSettled(f, TRUE)
    \/ \E f \in Frames : SoundGenerated(f)
    \/ \E source \in playing : SoundEnded(source)
    \/ SoundTimeout
    \/ \E enabled \in BOOLEAN : SetEnabled(enabled)
    \/ \E hidden \in BOOLEAN : VisibilityChange(hidden)

SpecAudio == InitApp /\ [][NextAudio]_vars

\* Every sound and every failure of playSound.
NextFactory ==
    \/ \E context \in {"none", "suspended", "running"} :
          \E pool \in {{}, IF context = "running" THEN {"success_sound"} ELSE {}} :
             InitializeAudio(context, pool)
    \/ \E eventType \in EventTypes : PublishAudioEvent(eventType, MaxPlays)
    \/ \E soundName \in SoundNames : CallPlaySound(soundName, MaxPlays)
    \/ \E f \in Frames, resumed \in BOOLEAN : ResumeSettled(f, resumed)
    \/ \E f \in Frames : SoundGenerated(f)
    \/ \E f \in Frames, ok \in BOOLEAN : SoundLoaded(f, ok)
    \/ \E source \in playing : SoundEnded(source)
    \/ SoundTimeout
    \/ \E enabled \in BOOLEAN : SetEnabled(enabled)
    \/ \E mute \in BOOLEAN : SetMute(mute)

SpecFactory == InitApp /\ [][NextFactory]_vars

\* event data with and without the members the conditional mappings test
DataInputs ==
    {NoData, [delta |-> 5], [delta |-> -5], [quality |-> 90],
     [delta |-> 5, quality |-> 10]}

\* The configuration files: fetched or not, parsed or not, flat or nested, or
\* not named at all.
NextConfig ==
    \/ \E mappingsResponse \in MappingResponses,
          implementationsResponse \in ImplementationResponses :
             InitializeFrom("running", mappingsResponse, implementationsResponse)
    \/ \E eventType \in {"button_click", "production_completed"} :
          PublishAudioEvent(eventType, MaxPlays)
    \/ \E data \in DataInputs : CallPlayAudioEvent("button_click", data, MaxPlays)
    \/ \E soundName \in {"click_sound", "success_sound"} :
          CallPlaySound(soundName, MaxPlays)
    \/ \E f \in Frames : SoundGenerated(f)
    \/ \E f \in Frames, ok \in BOOLEAN : SoundLoaded(f, ok)
    \/ \E source \in playing : SoundEnded(source)
    \/ SoundTimeout

SpecConfig == InitApp /\ [][NextConfig]_vars

\* playAudioEvent and playSound whatever the state of the context, the system
\* initialized once or several times.
NextEvents ==
    \/ \E context \in {"none", "suspended", "running"} : InitializeAudio(context, {})
    \/ \E context \in {"suspended", "running"} : Reinitialize(context)
    \/ \E eventType \in {"button_click", "unmapped_event"},
          data \in {NoData, [eventType |-> "button_hover"]} :
             CallPlayAudioEvent(eventType, data, MaxPlays)
    \/ CallPlaySound("click_sound", MaxPlays)
    \/ \E f \in Frames, resumed \in BOOLEAN : UnlockSettled(f, resumed)
    \/ \E f \in Frames, resumed \in BOOLEAN : ResumeSettled(f, resumed)
    \/ \E f \in Frames : SoundGenerated(f)
    \/ \E source \in playing : SoundEnded(source)
    \/ SoundTimeout
    \/ \E hidden \in BOOLEAN : VisibilityChange(hidden)

SpecEvents == InitApp /\ [][NextEvents]_vars

\* The deferred start-up: first interactions and the timer in any order, the
\* initializations they start, and events played meanwhile.
NextStartup ==
    \/ \E type \in InteractionTypes : Interaction(type)
    \/ SilentInitTimer
    \/ \E context \in {"suspended", "running"}, success \in BOOLEAN :
          InitializationSettled(context, success)
    \/ CallPlayAudioEvent("button_click", NoData, MaxPlays)
    \/ \E f \in Frames : UnlockSettled(f, TRUE)
    \/ \E f \in Frames : SoundGenerated(f)
    \/ \E source \in playing : SoundEnded(source)
    \/ SoundTimeout

SpecStartup == InitApp /\ [][NextStartup]_vars

\* master volumes handed to setMasterVolume, in hundredths
VolumeInputs == {-50, 5, 75, 150}

Devices == {[mobile |-> FALSE, lowEnd |-> FALSE], [mobile |-> TRUE, lowEnd |-> FALSE]}

\* The settings: set, saved, loaded on the next page load, exported, imported.
NextSettings ==
    \/ InitializeAudio("running", {})
    \/ \E device \in Devices : ReloadPage(device)
    \/ \E volume \in VolumeInputs : SetMasterVolume(volume)
    \/ \E enabled \in BOOLEAN : SetEnabled(enabled)
    \/ \E mute \in BOOLEAN : SetMute(mute)
    \/ \E settingsJson \in {exportSettings(AudioWorld),
                              JSON_stringify([global |-> DefaultSettings.global]),
                              JSON_stringify([global |-> [enabled |-> TRUE,
                                                          masterVolume |-> 150,
                                                          mute |-> FALSE]]),
                              BrokenText} : ImportSettings(settingsJson)
    \/ ResetToDefaults
    \/ PublishAudioEvent("button_click", MaxPlays)
    \/ \E f \in Frames : SoundGenerated(f)
    \/ \E source \in playing : SoundEnded(source)
    \/ SoundTimeout

SpecSettings == InitApp /\ [][NextSettings]_vars

\* functions of the page: one that returns and one that throws
PageCallbacks ==
    {[kind |-> "listener", id |-> 1], [kind |-> "thrower", id |-> 2]}

\* The bus: functions of the page subscribed to the clicks and to every
\* event, before and after the audio system, and events played.
NextBus ==
    \/ InitializeAudio("running", {})
    \/ \E eventType \in {"button_click", "*"}, callback \in PageCallbacks :
          Subscribe(eventType, callback)
    \/ CallPlayAudioEvent("button_click", NoData, MaxPlays)
    \/ \E f \in Frames : SoundGenerated(f)
    \/ \E source \in playing : SoundEnded(source)
    \/ SoundTimeout

SpecBus == InitApp /\ [][NextBus]_vars

\* The bus with subscriptions taken back: functions of the page subscribed,
\* also several times, and unsubscribed, and clicks played.
NextUnsubscribe ==
    \/ InitializeAudio("running", {})
    \/ \E eventType \in {"button_click", "*"}, callback \in PageCallbacks :
          Subscribe(eventType, callback)
    \/ \E eventType \in {"button_click", "*"}, callback \in PageCallbacks :
          Unsubscribe(eventType, callback)
    \/ CallPlayAudioEvent("button_click", NoData, MaxPlays)
    \/ \E f \in Frames : SoundGenerated(f)
    \/ \E source \in playing : SoundEnded(source)
    \/ SoundTimeout

SpecUnsubscribe == InitApp /\ [][NextUnsubscribe]_vars

\* category names: two configured ones, an unknown one and an inherited one
CategoryInputs == {"ui", "production", "voice", "constructor"}

\* The categories: their volumes and switches set while sounds of two
\* categories are played.  No call writes the member enabled of an inherited
\* object.
NextCategories ==
    \/ InitializeAudio("running", {})
    \/ \E category \in CategoryInputs, volume \in {-50, 150} :
          SetCategoryVolume(category, volume)
    \/ \E category \in CategoryInputs \ InheritedNames, enabled \in BOOLEAN :
          SetCategoryEnabled(category, enabled)
    \/ \E mute \in BOOLEAN : SetMute(mute)
    \/ \E eventType \in {"button_click", "production_production_complete"} :
          PublishAudioEvent(eventType, MaxPlays)
    \/ \E f \in Frames : SoundGenerated(f)
    \/ \E source \in playing : SoundEnded(source)
    \/ SoundTimeout

SpecCategories == InitApp /\ [][NextCategories]_vars

\* Tracked sources, those that end and those that never do.
NextTracking ==
    \/ InitializeAudio("running", {})
    \/ \E eventType \in {"button_click", "production_production_complete"} :
          PublishAudioEvent(eventType, MaxPlays)
    \/ \E f \in Frames : SoundGenerated(f)
    \/ \E source \in playing : SoundEnded(source)
    \/ SoundTimeout
    \/ \E enabled \in BOOLEAN : SetEnabled(enabled)

\* the event loop runs the continuations it holds and the timers that are due
SpecTracking ==
    /\ InitApp
    /\ [][NextTracking]_vars
    /\ WF_vars(\E f \in Frames : SoundGenerated(f))
    /\ WF_vars(SoundTimeout)

----------------------------------------------------------------------------
(* Properties of the audio system *)

\* C1: at most 8 sounds are simultaneously active: activeSounds never holds
\* more than 8 sources, whatever the interleaving of the audio events handled
\* by handleAudioEvent, also when events arrive while earlier ones have passed
\* the cap check and still await the context's resume or the generation.
C1_ActiveSoundsCapped ==
    Cardinality(audioSystem.activeSounds) <= maxConcurrentSounds

\* C2: every source trackActiveSound added to activeSounds is eventually
\* removed, by its ended callback, by stopAllSounds or at the latest by its
\* own timeout, also when it never ends by itself; and the timeout of a source
\* never removes a different source.
C2_TrackedSourceRemoved ==
    /\ \A source \in 1..MaxPlays :
          (source \in audioSystem.activeSounds)
              ~> (source \notin audioSystem.activeSounds)
    /\ [][SoundTimeout =>
             audioSystem.activeSounds \ audioSystem'.activeSounds
                 \subseteq {Head(timers)}]_vars

\* a source that never ends by itself is tracked, its timeout pending
C2_SilentSourceTracked ==
    /\ nextSource = 1
    /\ audioSystem.activeSounds = {1}
    /\ 1 \notin playing
    /\ timers = <<1>>
    /\ lastPlay = [sound |-> "production_complete", result |-> "true", added |-> TRUE]

\* C8: playSound never propagates an error: on every failure it resolves to
\* false and adds nothing to activeSounds, and it resolves to true only when
\* it added a source to activeSounds.
C8_PlaySoundResolves ==
    /\ lastPlay.result \in {"none", "true", "false"}
    /\ lastPlay.result = "false" => ~lastPlay.added
    /\ lastPlay.result = "true" => lastPlay.added

\* a call failed on an unsupported type after another call had added a source
C8_FailureAfterSuccess ==
    /\ lastPlay = [sound |-> "midi_sound", result |-> "false", added |-> FALSE]
    /\ lastGen = [sound |-> "midi_sound", outcome |-> "throw"]
    /\ nextSource >= 1

SupportedTypes == {"web_audio", "file", "third_party", "custom"}

SupportedGenerators ==
    {<<"simple", "_", "tone">>, <<"noise", "_", "burst">>,
     <<"frequency", "_", "sweep">>, <<"pulse", "_", "sequence">>,
     <<"complex", "_", "sequence">>, <<"envelope", "_", "sequence">>,
     <<"chord", "_", "sequence">>, <<"pulse", "_", "wave">>,
     <<"filtered", "_", "noise">>}

\* the sounds whose implementation names an unsupported type or generator
UnsupportedSounds ==
    {soundName \in DOMAIN Implementations :
        \/ Implementations[soundName].type \notin SupportedTypes
        \/ /\ Implementations[soundName].type = "web_audio"
           /\ ReplaceFirst(Implementations[soundName].generator, "-", "_")
                 \notin SupportedGenerators}

\* C10, as stated: for an implementation with an unsupported type or an
\* unsupported web_audio generator, generateSound falls back to a silent
\* buffer rather than raising an error.
C10_UnsupportedFallsBackSilent ==
    lastGen.sound \in UnsupportedSounds => lastGen.outcome = "silent"

\* C10: for an implementation with an unsupported type or an unsupported
\* web_audio generator, generateSound raises an error; playSound catches it,
\* resolves to false and adds nothing to activeSounds.
C10_UnsupportedRaises ==
    /\ lastGen.sound \in UnsupportedSounds => lastGen.outcome = "throw"
    /\ lastPlay.sound \in UnsupportedSounds
          => lastPlay.result = "false" /\ ~lastPlay.added

\* the sound with the unknown generator was asked for and refused
C10_GeneratorRefused ==
    /\ lastGen = [sound |-> "granular_sound", outcome |-> "throw"]
    /\ lastPlay = [sound |-> "granular_sound", result |-> "false", added |-> FALSE]

\* C11: when the sound-implementations file cannot be fetched or parsed,
\* SoundFactory.initialize(path) falls back to the default configuration: it
\* resolves to true, leaves isInitialized true, and the implementations are
\* exactly the default ones.
C11_ImplementationsFallBack ==
    /\ lastConfig.implementations \in FailedResponses
          => /\ lastConfig.implementationsResult
             /\ soundFactory.isInitialized
             /\ soundFactory.implementations = DefaultImplementations
    /\ \A kind \in FailedResponses :
          LET after == SoundFactory_initialize(soundFactory, Response(kind, EmptyObject))
          IN  /\ after.result
              /\ after.obj.isInitialized
              /\ after.obj.implementations = DefaultImplementations

\* the file was no JSON and a click was played from the default configuration
C11_DefaultClickPlayed ==
    /\ lastConfig.implementations = "invalid_json"
    /\ lastPlay.sound = "click_sound"
    /\ lastPlay.result = "true"
    /\ lastPlay.added

\* C12: when the sound-mappings file cannot be fetched or parsed,
\* SoundMappingSystem.initialize(path) falls back to the default mappings: the
\* mapping system ends initialized and getSoundForAction still maps
\* 'button_click' to a sound.
C12_MappingsFallBack ==
    lastConfig.mappings \in FailedResponses
       => /\ soundMapping.isInitialized
          /\ soundMapping.mappings = DefaultMappings
          /\ getSoundForAction(soundMapping, "button_click", NoData) # ""

C16_SetEnabledStopsSounds ==
    audioSystem.listeners > 0
       => /\ setEnabled(AudioWorld, FALSE).audioSystem.activeSounds = {}
          /\ setEnabled(AudioWorld, TRUE).audioSystem.activeSounds
                = audioSystem.activeSounds

\* a tracked source that never sounds, its timeout still pending, is gone
\* after the sounds were disabled
C16_SilentSourceStopped ==
    /\ ~audioSettings.global.enabled
    /\ audioSystem.activeSounds = {}
    /\ lastPlay.sound = "production_complete"
    /\ lastPlay.added
    /\ nextSource = 1
    /\ timers = <<1>>

\* a state of the system with n active sounds
Crowded(n) == [AudioWorld EXCEPT !.audioSystem.activeSounds = 1..n]

\* C19: the cap is fixed: AudioSystem.maxConcurrentSounds is 8 in every
\* reachable state; no operation on the settings (platform detection lowering
\* performance.maxConcurrentSounds to 4, updateSettings, importSettings,
\* resetToDefaults) and no initialize call changes the cap that
\* handleAudioEvent enforces.
C19_CapFixed ==
    /\ audioSystem.maxConcurrentSounds = 8
    /\ (audioSystem.isInitialized /\ getVolume(audioSettings, "") > 0)
          => /\ handleAudioEvent(Crowded(8), "button_click", NoData) = Crowded(8)
             /\ handleAudioEvent(Crowded(7), "button_click", NoData) # Crowded(7)

\* on a mobile device the settings say 4 and a sound is played
C19_MobileSettingsLowered ==
    /\ navigator.mobile
    /\ audioSettings.performance.maxConcurrentSounds = 4
    /\ audioSystem.isInitialized
    /\ lastPlay.added

C15_EventHandledOnce ==
    /\ lastEvent.result = "true"
          => /\ lastEvent.dispatched = 1
             /\ lastEvent.handled = <<lastEvent.type>>
    /\ Len(Callbacks(eventBus, "*")) <= 1
    /\ (audioSystem.isInitialized /\ audioSystem.audioContext = "running")
          => \A eventType \in {"button_click", "unmapped_event"},
                data \in {NoData, [eventType |-> "button_hover"]} :
                  LET after == playAudioEvent(AudioWorld, eventType, data)
                  IN  /\ after.lastEvent.result = "true"
                      /\ after.lastEvent.dispatched = 1
                      /\ after.lastEvent.handled = <<eventType>>

\* an event went through after the third initialization
C15_HandledAfterReinitialization ==
    /\ audioSystem.eventBusSubscription = 3
    /\ lastEvent.result = "true"
    /\ lastEvent.handled = <<"button_click">>
    /\ lastPlay.added

\* C20: the deferred start-up runs AudioManager.initialize at most once, for
\* every interleaving of the first user interactions (click, touchstart,
\* keydown) and the 5 s silent-initialization timer, including an interaction
\* that arrives while an initialization started by the timer is still awaiting.
C20_InitializeAtMostOnce == startup.calls <= 1

\* C22: whenever AudioSystem.isInitialized is true, its sound mapping system
\* and its sound factory are themselves initialized: AudioSystem.initialize
\* resolves to true only if both sub-initialisations succeeded.
C22_InitializedImpliesParts ==
    audioSystem.isInitialized =>
        /\ soundMapping.isInitialized
        /\ soundFactory.isInitialized
        /\ lastConfig.mappingsResult
        /\ lastConfig.implementationsResult

\* a call started no sound: nothing was tracked and no playSound call waits
StartsNothing(after) ==
    /\ after.audioSystem.activeSounds = audioSystem.activeSounds
    /\ after.frames = frames
    /\ after.nextSource = nextSource

C24_AddedOnlyWhileAudible ==
    [][(audioSystem'.activeSounds \ audioSystem.activeSounds) # {}
          => /\ audioSettings.global.enabled
             /\ ~audioSettings.global.mute]_vars

\* the places of the conditional mappings whose condition holds on the data
HoldingAt(mapping, data) ==
    {k \in 1..Len(mapping.conditionalMappings) :
        ConditionHolds(mapping.conditionalMappings[k].condition, data)}

\* C25: on an initialized mapping system getSoundForAction(action, data)
\* returns the sound of the first conditional mapping, in insertion order,
\* whose condition holds on data, whatever the action is; only when no
\* condition holds does it return the base mapping of the action, or null when
\* the action has none.
C25_ConditionalMappingFirst ==
    soundMapping.isInitialized =>
        \A action \in EventTypes \cup DOMAIN DefaultMappings, data \in DataInputs :
            LET sound == getSoundForAction(soundMapping, action, data)
                holding == HoldingAt(soundMapping, data)
            IN  IF holding # {}
                THEN \E k \in holding :
                        /\ \A other \in holding : k <= other
                        /\ sound = soundMapping.conditionalMappings[k].sound
                ELSE IF action \in DOMAIN soundMapping.mappings
                THEN sound = soundMapping.mappings[action]
                ELSE sound = ""

\* on the default configuration a click whose data satisfy the first and the
\* last condition played the sound of the first one
C25_ConditionalSoundPlayed ==
    /\ lastConfig.mappings = "no_path"
    /\ soundMapping.conditionalMappings = DefaultConditionalMappings
    /\ lastEvent.handled = <<"button_click">>
    /\ lastPlay.sound = "coin_gain"
    /\ lastPlay.added
    /\ getSoundForAction(soundMapping, "button_click", [delta |-> 5, quality |-> 10])
          = "coin_gain"
    /\ getSoundForAction(soundMapping, "button_click", [quality |-> 10])
          = "low_quality_sound"

\* every sound name the mapping system can return
ReturnableSounds(mapping) ==
    {mapping.mappings[action] : action \in DOMAIN mapping.mappings}
        \cup {mapping.conditionalMappings[k].sound :
                 k \in 1..Len(mapping.conditionalMappings)}

\* C26: with both components on their default configurations, every sound
\* name the mapping system can return has an implementation in the sound
\* factory, so no mapped event falls through to the silent fallback.
C26_DefaultSoundsImplemented ==
    (/\ audioSystem.isInitialized
     /\ lastConfig.mappings = "no_path"
     /\ lastConfig.implementations = "no_path")
        => /\ ReturnableSounds(soundMapping) \subseteq DOMAIN soundFactory.implementations
           /\ \A sound \in ReturnableSounds(soundMapping) :
                 OutcomeName(generateSound(soundFactory, sound)) # "silent"

\* C27: getVolume(category) returns 0 when audio is globally disabled or
\* muted, or when the given known category is disabled; otherwise it returns
\* the master volume multiplied by the category volume (the master volume
\* alone for no category or an unknown category), clamped into 0..1; its
\* result is within 0..1 in every reachable state.
C27_GetVolume ==
    \A category \in CategoryInputs \cup {""} :
        LET volume == getVolume(audioSettings, category)
            silent == ~audioSettings.global.enabled \/ audioSettings.global.mute
            known == category \in DOMAIN audioSettings.categories
        IN  /\ volume \in 0..One
            /\ silent => volume = 0
            /\ (known /\ ~audioSettings.categories[category].enabled) => volume = 0
            /\ (~silent /\ known /\ audioSettings.categories[category].enabled)
                  => volume = ClampProduct(audioSettings.global.masterVolume
                                              * audioSettings.categories[category].volume)
            /\ (~silent /\ ~known)
                  => volume = ClampProduct(audioSettings.global.masterVolume * 100)

\* C28: after any sequence of settings operations the settings are valid in
\* the sense of validateSettings: master volume and every category volume lie
\* in 0..1, maxConcurrentSounds >= 1, bufferPoolSize >= 0, and every settings
\* group still has all its default fields.
C28_SettingsValid ==
    /\ validateSettings(audioSettings).isValid
    /\ DOMAIN audioSettings = DOMAIN DefaultSettings
    /\ \A group \in DOMAIN DefaultSettings :
          DOMAIN audioSettings[group] = DOMAIN DefaultSettings[group]

\* the category's settings, storage and change events a call leaves alone
NoOp(after) ==
    /\ after.audioSettings = audioSettings
    /\ after.localStorage = localStorage
    /\ after.dispatched = <<>>

\* C29: setCategoryVolume and setCategoryEnabled with a category name that is
\* not one of the configured categories are no-ops: the settings are
\* unchanged, nothing is written to storage and no change event is
\* dispatched; with a known category only that category's field changes, and
\* setCategoryVolume stores the value clamped into 0..1.
C29_UnknownCategoryNoOp ==
    \A category \in CategoryInputs :
        IF category \notin DOMAIN audioSettings.categories
        THEN /\ \A volume \in {-50, 40, 150} :
                   NoOp(setCategoryVolume(AudioWorld, category, volume))
             /\ \A enabled \in BOOLEAN :
                   NoOp(setCategoryEnabled(AudioWorld, category, enabled))
        ELSE /\ \A volume \in {-50, 40, 150} :
                   setCategoryVolume(AudioWorld, category, volume).audioSettings
                      = [audioSettings EXCEPT !.categories[category].volume =
                            IF volume < 0 THEN 0 ELSE IF volume > 100 THEN 100
                            ELSE volume]
             /\ \A enabled \in BOOLEAN :
                   setCategoryEnabled(AudioWorld, category, enabled).audioSettings
                      = [audioSettings EXCEPT !.categories[category].enabled = enabled]

\* C30: publish(type, data) invokes every subscriber of that type in
\* subscription order and then every wildcard subscriber in subscription
\* order, each with the event type attached; a subscriber that throws does not
\* prevent any later subscriber from being invoked and the error does not
\* reach the publisher.
C30_PublishReachesEverySubscriber ==
    \A eventType \in {"button_click", "slider_adjusted", "unmapped_event"},
       data \in {NoData, [eventType |-> "button_hover"], [delta |-> 5]} :
        LET after == publish(AudioWorld, eventType, data)
            expected == Callbacks(eventBus, eventType) \o Callbacks(eventBus, "*")
        IN  /\ ~after.error
            /\ Len(after.called) = Len(expected)
            /\ \A k \in 1..Len(expected) :
                  /\ after.called[k].callback = expected[k]
                  /\ after.called[k].eventType = eventType

\* a click went to a subscriber of the clicks that throws, to the next one, to
\* a wildcard subscriber that throws and last to the audio system, which
\* played its sound
C30_CalledAfterThrow ==
    /\ lastEvent.result = "true"
    /\ lastEvent.type = "button_click"
    /\ Len(lastEvent.called) = 4
    /\ lastEvent.called[1].callback = [kind |-> "thrower", id |-> 2]
    /\ lastEvent.called[2].callback = [kind |-> "listener", id |-> 1]
    /\ lastEvent.called[3].callback = [kind |-> "thrower", id |-> 2]
    /\ lastEvent.called[4].callback = SystemCallback(1)
    /\ lastEvent.handled = <<"button_click">>
    /\ \E f \in Frames : f.sound = "click_sound"

\* the calls one publication of a click makes for the subscriptions to
\* eventType: those to the clicks come first, those to every event after them
InvokedFor(a, eventType) ==
    LET called == publish(a, "button_click", NoData).called
        clicks == Len(Callbacks(a.eventBus, "button_click"))
    IN  IF eventType = "*" THEN SubSeq(called, clicks + 1, Len(called))
        ELSE SubSeq(called, 1, clicks)

\* C31: after unsubscribe(type, callback) the callback is no longer invoked
\* for events of that type, however many times it was subscribed to the type,
\* and unsubscribing a callback that is not subscribed changes nothing.
C31_UnsubscribedNotInvoked ==
    \A eventType \in {"button_click", "*"}, callback \in PageCallbacks :
        LET after == unsubscribe(AudioWorld, eventType, callback)
            invoked == InvokedFor(after, eventType)
        IN  /\ \A k \in 1..Len(invoked) : invoked[k].callback # callback
            /\ IndexOf(Callbacks(eventBus, eventType), callback) = 0
                  => after = AudioWorld

\* C32: when the volume settings change (audioVolumeChanged), every active
\* sound that has a gain node gets its gain set to getVolume of the category
\* of its own sound name: the volume a newly played sound of that name would
\* get.
C32_GainOfOwnCategory ==
    audioSystem.listeners > 0
        => LET after == notifyVolumeChange(AudioWorld) IN
           \A source \in audioSystem.activeSounds :
               after.sources[source].gain
                   = getVolume(audioSettings, getSoundCategory(sources[source].played))

====
